---- MODULE Spec2Model ----
(***************************************************************************)
(* Model of the mcp-toggl caching and hydration layer:                     *)
(*   - CacheManager (src/src/cache-manager.ts): six TTL-bounded stores,    *)
(*     the single/bulk fetch-and-cache methods, warmCache,                 *)
(*     hydrateTimeEntries, clearCache, pruneExpired;                       *)
(*   - the tool layer's warm guard (src/src/index.ts): cacheWarmed,        *)
(*     cacheWarmingPromise, ensureCache, toggl_warm_cache,                 *)
(*     toggl_clear_cache.                                                  *)
(* JavaScript runs one handler at a time and switches between handlers     *)
(* only at an await: every action below is the code between two awaits.    *)
(***************************************************************************)
EXTENDS Integers, Sequences, FiniteSets, TLC

\* ------------------------------------------------------------------------
\* Bounds of the model
\* ------------------------------------------------------------------------
MaxCalls == 2       \* tool / library calls issued in one behaviour
MaxEntries == 2     \* time entries hydrated in one behaviour, over all calls
MaxTime == 1        \* the clock runs from 0 to MaxTime

\* ------------------------------------------------------------------------
\* The upstream account (what the Toggl API answers when it answers)
\* ------------------------------------------------------------------------
Kinds == {"workspace", "project", "client", "task", "user", "tag"}

\* JS null / undefined for an entity
Null == [id |-> 0, name |-> "", email |-> "", client_id |-> 0]

KindLabel(kind) ==
  CASE kind = "workspace" -> "Workspace"
    [] kind = "project" -> "Project"
    [] kind = "client" -> "Client"
    [] kind = "task" -> "Task"
    [] kind = "user" -> "User"
    [] kind = "tag" -> "Tag"

\* project 2 belongs to client 1, the other projects have no client
ProjectClient(pid) == IF pid = 2 THEN 1 ELSE 0

\* the entity the upstream holds under (kind, id); a fixed value per id
UpstreamEntity(kind, id) ==
  [id |-> id,
   name |-> kind \o "-" \o ToString(id),
   email |-> IF kind = "user" THEN "user" \o ToString(id) \o "@example.com" ELSE "",
   client_id |-> IF kind = "project" THEN ProjectClient(id) ELSE 0]

\* the authenticated user, the answer of GET /me
MeId == 1
getMe == UpstreamEntity("user", MeId)

\* TogglAPI.getUser ignores its argument and asks for /me
apiGetUser(userId) == getMe

\* fault variant of apiGet: the lookup returns the first entity of the kind
apiGet_first(kind, id) == UpstreamEntity(kind, 1)

\* what a successful single-entity request returns
apiGet(kind, id) == IF kind = "user" THEN apiGetUser(id) ELSE UpstreamEntity(kind, id)

\* GET /workspaces, in listed order
WorkspaceList == <<1, 2, 3, 4>>

\* GET /workspaces/{w}/projects | clients | tags, in listed order
ListIds(kind, w) ==
  CASE kind = "project" -> IF w = 1 THEN <<1, 2>> ELSE <<>>
    [] kind = "client" -> IF w = 1 THEN <<1>> ELSE <<>>
    [] kind = "tag" -> IF w = 1 THEN <<1, 2>> ELSE <<>>

\* a bulk request's answer: the entities of the listed ids
RECURSIVE Entities(_, _)
Entities(kind, ids) ==
  IF ids = <<>> THEN <<>>
  ELSE <<UpstreamEntity(kind, Head(ids))>> \o Entities(kind, Tail(ids))

\* how an upstream request can settle
Outcomes == {"ok", "null", "reject"}
ListOutcomes == {"ok", "reject"}

\* ------------------------------------------------------------------------
\* Configuration (index.ts cacheConfig, from the environment)
\* ------------------------------------------------------------------------
MaxSizeChoices == {6, 9}
TtlChoices == {1}
DefaultWorkspaceChoices == {0}

\* args.workspace_id of toggl_warm_cache: 0 when not given
WorkspaceArgs == {0, 1}

\* ------------------------------------------------------------------------
\* State
\* ------------------------------------------------------------------------
VARIABLES
  config,               \* CacheManager.config: [maxSize, ttl]
  api,                  \* CacheManager.api has been set (setAPI)
  now,                  \* Date.now()
  store,                \* the six Maps, each as its entries in insertion order
  stats,                \* CacheManager.stats: [hits, misses, lastReset]
  cacheWarmed,          \* index.ts cacheWarmed
  cacheWarmingPromise,  \* index.ts cacheWarmingPromise: 0 (null) or the call that created it
  calls                 \* the tool / library calls: call id -> its position and locals

vars == <<config, api, now, store, stats, cacheWarmed, cacheWarmingPromise, calls>>

CallIds == 1..MaxCalls

\* ------------------------------------------------------------------------
\* Entity Cache Store
\* ------------------------------------------------------------------------
\* position of id in a Map (0 when absent)
IndexOf(cache, id) ==
  IF \E i \in 1..Len(cache) : cache[i].id = id
  THEN CHOOSE i \in 1..Len(cache) : cache[i].id = id
  ELSE 0

has(cache, id) == IndexOf(cache, id) # 0

\* fault variant of isValid: an entry is still valid at age = ttl
isValid_lenient(entry, t) == t - entry.timestamp <= entry.ttl

\* CacheManager.isValid for a present entry, at time t
isValid(entry, t) == t - entry.timestamp < entry.ttl

\* fault variant of getCached: the lookup answers with the oldest entry of
\* the Map, whatever its key
getCached_first(cache, id, t) ==
  IF cache # <<>> /\ isValid(cache[1], t)
  THEN [hit |-> TRUE, data |-> cache[1].data]
  ELSE [hit |-> FALSE, data |-> Null]

\* CacheManager.getCached: [hit, data]; the caller's stats move with StatsAfter
getCached(cache, id, t) ==
  LET i == IndexOf(cache, id) IN
  IF i # 0 /\ isValid(cache[i], t)
  THEN [hit |-> TRUE, data |-> cache[i].data]
  ELSE [hit |-> FALSE, data |-> Null]

\* fault variant of StatsAfter: a hit falls through to misses++
StatsAfter_fallsThrough(s, hit) ==
  IF hit THEN [s EXCEPT !.hits = @ + 1, !.misses = @ + 1] ELSE [s EXCEPT !.misses = @ + 1]

\* the counters after one getCached
StatsAfter(s, hit) ==
  IF hit THEN [s EXCEPT !.hits = @ + 1] ELSE [s EXCEPT !.misses = @ + 1]

\* Map.set: an existing key keeps its position, a new key goes last
MapSet(cache, entry) ==
  LET i == IndexOf(cache, entry.id) IN
  IF i # 0 THEN [cache EXCEPT ![i] = entry] ELSE Append(cache, entry)

\* CacheManager.setCached: size >= maxSize / 6 is a comparison of reals,
\* i.e. 6 * size >= maxSize; the first key of the Map is its oldest insertion
setCached(cache, id, data, cfg, t) ==
  LET room == IF 6 * Len(cache) >= cfg.maxSize /\ Len(cache) > 0
              THEN Tail(cache) ELSE cache
  IN MapSet(room, [id |-> id, data |-> data, timestamp |-> t, ttl |-> cfg.ttl])

\* list.forEach(e => setCached(cache, e.id, e))
RECURSIVE setCachedAll(_, _, _, _)
setCachedAll(cache, list, cfg, t) ==
  IF list = <<>> THEN cache
  ELSE setCachedAll(setCached(cache, Head(list).id, Head(list), cfg, t), Tail(list), cfg, t)

\* fault variant of prune: an entry of age = ttl is kept
prune_keepsBoundary(cache, t) == SelectSeq(cache, LAMBDA e : t - e.timestamp <= e.ttl)

\* the prune helper of pruneExpired, on one Map
RECURSIVE prune(_, _)
prune(cache, t) ==
  IF cache = <<>> THEN <<>>
  ELSE IF isValid(Head(cache), t)
       THEN <<Head(cache)>> \o prune(Tail(cache), t)
       ELSE prune(Tail(cache), t)

\* CacheManager.getStats
getStats ==
  [workspaces |-> Len(store["workspace"]), projects |-> Len(store["project"]),
   clients |-> Len(store["client"]), tasks |-> Len(store["task"]),
   users |-> Len(store["user"]), tags |-> Len(store["tag"]),
   hits |-> stats.hits, misses |-> stats.misses, lastReset |-> stats.lastReset]

\* ------------------------------------------------------------------------
\* Time entries and their hydrated form
\* ------------------------------------------------------------------------
\* an optional field: <<>> when absent, <<v>> when set
None == <<>>
Some(v) == <<v>>

\* a raw TimeEntry; 0 stands for an absent (falsy) id, <<>> for no tag_ids
TimeEntry(id, wid, pid, tid, uid, tags) ==
  [id |-> id, workspace_id |-> wid, project_id |-> pid, task_id |-> tid,
   user_id |-> uid, tag_ids |-> tags, description |-> "entry " \o ToString(id)]

RawFields == {"id", "workspace_id", "project_id", "task_id", "user_id", "tag_ids", "description"}

EA == TimeEntry(1, 1, 1, 0, 0, <<>>)      \* workspace 1, project 1
EB == TimeEntry(2, 1, 2, 0, 0, <<>>)      \* workspace 1, project 2 (of client 1)
EC == TimeEntry(3, 1, 1, 0, 0, <<>>)      \* shares project 1 with EA
ER == TimeEntry(4, 0, 1, 1, 2, <<>>)      \* no workspace; project 1, task 1, user 2
ET == TimeEntry(5, 0, 0, 0, 0, <<2, 1>>)  \* no workspace, no project; tags 2 and 1

\* the batches a caller passes to hydrateTimeEntries
Batches == {<<>>, <<EA>>, <<EA, EB>>, <<EA, EC>>, <<ER>>, <<ET>>}

RECURSIVE Sum(_)
Sum(s) == IF s = <<>> THEN 0 ELSE Head(s) + Sum(Tail(s))

ResolvedKinds == {"workspace", "project", "client", "task", "user"}

\* const hydEntry = { ...entry }: the raw fields, no display field yet.
\* got / tried record, per reference, what the resolution returned, and
\* tags_got what each getTag returned, in call order (history).
Spread(e) ==
  [id |-> e.id, workspace_id |-> e.workspace_id, project_id |-> e.project_id,
   task_id |-> e.task_id, user_id |-> e.user_id, tag_ids |-> e.tag_ids,
   description |-> e.description,
   workspace_name |-> None, project_name |-> None, client_id |-> 0,
   client_name |-> None, task_name |-> None, user_name |-> None, tag_names |-> None,
   got |-> [k \in ResolvedKinds |-> Null], tried |-> {}, tags_got |-> <<>>]

NoEntry == Spread(TimeEntry(0, 0, 0, 0, 0, <<>>))

\* JS a || b on strings
OrElse(a, b) == IF a # "" THEN a ELSE b

\* `${Kind} ${id}`
Placeholder(kind, id) == KindLabel(kind) \o " " \o ToString(id)

\* x?.name
NameOf(res) == IF res = Null THEN "" ELSE res.name
EmailOf(res) == IF res = Null THEN "" ELSE res.email

\* distinct values of a sequence, in order of first appearance (a JS Set)
RECURSIVE Distinct(_)
Distinct(s) ==
  IF s = <<>> THEN <<>>
  ELSE LET d == Distinct(SubSeq(s, 1, Len(s) - 1)) IN
       IF \E k \in 1..Len(d) : d[k] = s[Len(s)] THEN d ELSE Append(d, s[Len(s)])

Range(s) == {s[k] : k \in 1..Len(s)}

\* hydrateTimeEntries:313-323, projectIds
projectIds(entries) ==
  Distinct(SelectSeq([k \in 1..Len(entries) |-> entries[k].project_id], LAMBDA p : p # 0))

\* hydrateTimeEntries:326, Array.from(projectIds).filter(id => !this.projects.has(id))
projectsToFetch(entries, projects, t) ==
  SelectSeq(projectIds(entries), LAMBDA id : ~has(projects, id))

\* fault variant of TargetId: the tag loop looks up the first tag id every time
TargetId_firstTag(e, cur, stage, j) ==
  CASE stage = "workspace" -> e.workspace_id
    [] stage = "project" -> e.project_id
    [] stage = "client" -> cur.client_id
    [] stage = "task" -> e.task_id
    [] stage = "user" -> e.user_id
    [] stage = "tag" -> e.tag_ids[1]

\* the id a resolution stage looks up
TargetId(e, cur, stage, j) ==
  CASE stage = "workspace" -> e.workspace_id
    [] stage = "project" -> e.project_id
    [] stage = "client" -> cur.client_id
    [] stage = "task" -> e.task_id
    [] stage = "user" -> e.user_id
    [] stage = "tag" -> e.tag_ids[j]

\* hydrateTimeEntries:352-376, from the task test on
AfterClient(e) ==
  IF e.task_id # 0 /\ e.project_id # 0 THEN "task"
  ELSE IF e.user_id # 0 THEN "user"
  ELSE IF Len(e.tag_ids) > 0 THEN "tag"
  ELSE "push"

AfterTask(e) ==
  IF e.user_id # 0 THEN "user"
  ELSE IF Len(e.tag_ids) > 0 THEN "tag"
  ELSE "push"

AfterUser(e) == IF Len(e.tag_ids) > 0 THEN "tag" ELSE "push"

\* the stage that follows `stage` once it returned res
StageAfter(e, stage, res, j) ==
  CASE stage = "workspace" -> IF e.project_id # 0 THEN "project" ELSE AfterClient(e)
    [] stage = "project" -> IF res # Null /\ res.client_id # 0 THEN "client" ELSE AfterClient(e)
    [] stage = "client" -> AfterClient(e)
    [] stage = "task" -> AfterTask(e)
    [] stage = "user" -> AfterUser(e)
    [] stage = "tag" -> IF j < Len(e.tag_ids) THEN "tag" ELSE "push"

Note(cur, stage, res) ==
  [cur EXCEPT !.got[stage] = res, !.tried = @ \cup {stage}]

\* fault variant of withName: the name is taken without the || fallback
withName_nofallback(cur, e, stage, res, j) ==
  CASE stage = "workspace" -> [Note(cur, stage, res) EXCEPT !.workspace_name = Some(NameOf(res))]
    [] stage = "project" -> [Note(cur, stage, res) EXCEPT !.project_name = Some(NameOf(res))]
    [] stage = "client" -> [Note(cur, stage, res) EXCEPT !.client_name = Some(NameOf(res))]
    [] stage = "task" -> [Note(cur, stage, res) EXCEPT !.task_name = Some(NameOf(res))]
    [] stage = "user" -> [Note(cur, stage, res) EXCEPT !.user_name = Some(NameOf(res))]
    [] stage = "tag" -> [cur EXCEPT !.tags_got = Append(@, res)]

\* hydrateTimeEntries:336-373: the display field a stage's result sets
withName(cur, e, stage, res, j) ==
  CASE stage = "workspace" ->
         [Note(cur, stage, res) EXCEPT
            !.workspace_name = Some(OrElse(NameOf(res), Placeholder("workspace", e.workspace_id)))]
    [] stage = "project" ->
         [Note(cur, stage, res) EXCEPT
            !.project_name = Some(OrElse(NameOf(res), Placeholder("project", e.project_id))),
            !.client_id = IF res # Null /\ res.client_id # 0 THEN res.client_id ELSE @]
    [] stage = "client" ->
         [Note(cur, stage, res) EXCEPT
            !.client_name = Some(OrElse(NameOf(res), Placeholder("client", cur.client_id)))]
    [] stage = "task" ->
         [Note(cur, stage, res) EXCEPT
            !.task_name = Some(OrElse(NameOf(res), Placeholder("task", e.task_id)))]
    [] stage = "user" ->
         [Note(cur, stage, res) EXCEPT
            !.user_name = Some(OrElse(NameOf(res),
                                 OrElse(EmailOf(res), Placeholder("user", e.user_id))))]
    [] stage = "tag" ->
         LET names == IF cur.tag_names = None THEN <<>> ELSE cur.tag_names[1] IN
         [cur EXCEPT !.tag_names = Some(IF res # Null THEN Append(names, res.name) ELSE names),
                     !.tags_got = Append(@, res)]

\* ------------------------------------------------------------------------
\* Calls: a tool call or a library call, its position and its locals
\* ------------------------------------------------------------------------
\* a warmCache execution: none | list | entities | settled | then | closed
\* ------------------------------------------------------------------------
\* Timeline (index.ts:1032-1116): the handler shares no state with the cache
\* ------------------------------------------------------------------------
SECONDS_PER_DAY == 86400
MsPerSecond == 1000

\* parseDate(input).getTime(): local midnight of a day, in ms; days are numbered
parseDate(day) == day * SECONDS_PER_DAY * MsPerSecond

\* getDateRange (utils.ts:47-63): today and yesterday, from the clock in ms
getDateRange(period, clock) ==
  LET today == (clock \div (SECONDS_PER_DAY * MsPerSecond)) * SECONDS_PER_DAY * MsPerSecond
      day == SECONDS_PER_DAY * MsPerSecond
  IN IF period = "today" THEN [start |-> today, end |-> today + day]
     ELSE [start |-> today - day, end |-> today]

\* isDatePeriod, for the periods of the model
isDatePeriod(value) == value \in {"today", "yesterday"}

\* index.ts:1036-1054: startTs and endTs, in seconds, null when not given
TimelineWindow(args, clock) ==
  IF args.period # None
  THEN LET range == getDateRange(args.period[1], clock)
       IN [startTs |-> Some(range.start \div MsPerSecond),
           endTs |-> Some(range.end \div MsPerSecond)]
  ELSE [startTs |-> IF args.start_date # None
                    THEN Some(parseDate(args.start_date[1]) \div MsPerSecond) ELSE None,
        endTs |-> IF args.end_date # None
                  THEN Some(parseDate(args.end_date[1]) \div MsPerSecond + SECONDS_PER_DAY)
                  ELSE None]

\* a timeline event: end_time and filename may be null
TimelineEvent(id, start_time, end_time, filename) ==
  [id |-> id, start_time |-> start_time, end_time |-> end_time, filename |-> filename]

TE1 == TimelineEvent(1, SECONDS_PER_DAY - 400, Some(SECONDS_PER_DAY - 1), Some("Code"))
TE2 == TimelineEvent(2, SECONDS_PER_DAY - 400, Some(SECONDS_PER_DAY), Some("Chrome"))
TE3 == TimelineEvent(3, SECONDS_PER_DAY + 100, Some(SECONDS_PER_DAY + 3700), None)
TE4 == TimelineEvent(4, 2 * SECONDS_PER_DAY - 1, None, Some("Code"))
TE5 == TimelineEvent(5, 2 * SECONDS_PER_DAY, Some(2 * SECONDS_PER_DAY + 100), Some("Code"))
TE6 == TimelineEvent(6, SECONDS_PER_DAY - 100, None, Some("Chrome"))
TE7 == TimelineEvent(7, SECONDS_PER_DAY - 50, Some(SECONDS_PER_DAY + 50), Some("Chrome"))
TE8 == TimelineEvent(8, SECONDS_PER_DAY + 200, Some(SECONDS_PER_DAY + 260), Some("2048"))

\* what api.getTimeline can answer
TimelineResponses ==
  {<<>>, <<TE1, TE2, TE3>>, <<TE3, TE6, TE5>>, <<TE1, TE2, TE3, TE4, TE5>>, <<TE6, TE4>>,
   <<TE7, TE4, TE3>>, <<TE3, TE8>>}

\* Date.now() when the response is processed, in ms
ClockReadings == {SECONDS_PER_DAY * MsPerSecond - 1, 2 * SECONDS_PER_DAY * MsPerSecond + 500}

\* an argument that is a string where a number is expected
Text(str) == <<"string", str>>

\* typeof value === 'number', for an argument that is None, Some(number) or Text(string)
isNumber(value) == Len(value) = 1

\* the arguments of toggl_get_timeline
TimelineArgs ==
  [period : {None, Some("today"), Some("decade")},
   start_date : {None, Some(1)},
   end_date : {None, Some(1)},
   app : {None, Some("Code"), Some("unknown")},
   include_events : {None, Some(TRUE), Some(FALSE)},
   limit : {None, Some(0), Some(2), Some(1001), Text("ten")}]

NoArgs ==
  [period |-> None, start_date |-> None, end_date |-> None, app |-> None,
   include_events |-> None, limit |-> None]

NoTimeline ==
  [args |-> NoArgs,        \* the tool's arguments
   clock |-> 0,            \* Date.now() when the response was processed
   upstream |-> "none",    \* how api.getTimeline() settled: none | ok | reject
   response |-> <<>>,      \* allEvents
   counted |-> <<>>,       \* history: the ids of the events counted, in order
   durations |-> <<>>,     \* history: the duration each of them contributed
   body |-> None]          \* the response body

\* String.toLowerCase, on the names of the model
toLowerCase(str) ==
  CASE str = "Code" -> "code"
    [] str = "Chrome" -> "chrome"
    [] str = "Unknown" -> "unknown"
    [] OTHER -> str

\* String.includes, on the lower-case names of the model
includes(str, part) ==
  part \in (CASE str = "code" -> {"", "c", "co", "cod", "code", "o", "od", "ode", "d", "de", "e"}
             [] str = "chrome" -> {"", "c", "ch", "chrome", "h", "r", "o", "m", "e", "rome", "me"}
             [] str = "unknown" -> {"", "u", "un", "unknown", "n", "k", "o", "w", "known", "own"}
             [] OTHER -> {"", str})

\* e.end_time ?? now
eventEnd(e, nowS) == IF e.end_time = None THEN nowS ELSE e.end_time[1]

\* fault variant of outsideWindow: the test of the comment at index.ts:1074,
\* eventEnd >= startTs && start_time <= endTs
outsideWindow_inclusiveEnd(e, w, nowS) ==
  \/ w.startTs # None /\ eventEnd(e, nowS) < w.startTs[1]
  \/ w.endTs # None /\ e.start_time > w.endTs[1]

\* index.ts:1075-1076: the event does not overlap the range
outsideWindow(e, w, nowS) ==
  \/ w.startTs # None /\ eventEnd(e, nowS) < w.startTs[1]
  \/ w.endTs # None /\ e.start_time >= w.endTs[1]

\* e.filename ?? 'Unknown'
filenameOf(e) == IF e.filename = None THEN "Unknown" ELSE e.filename[1]

\* index.ts:1057: args.app ? String(args.app).toLowerCase() : null
appFilterOf(app) ==
  IF app # None /\ app[1] # "" THEN Some(toLowerCase(app[1])) ELSE None

\* index.ts:1080: the app filter rejects the event
filteredOut(e, appFilter) ==
  appFilter # None /\ ~includes(toLowerCase(filenameOf(e)), appFilter[1])

Max(a, b) == IF a >= b THEN a ELSE b
Min(a, b) == IF a <= b THEN a ELSE b

\* index.ts:1058: args.include_events !== false
includeEventsOf(arg) == arg # Some(FALSE)

\* fault variant of limitOf: no lower clamp
limitOf_noFloor(rawLimit) == Min(IF isNumber(rawLimit) THEN rawLimit[1] ELSE 50, 1000)

\* index.ts:1059-1060: the limit, 50 when not a number, clamped to 1..1000
limitOf(rawLimit) == Max(1, Min(IF isNumber(rawLimit) THEN rawLimit[1] ELSE 50, 1000))

\* Date.toISOString of an instant in ms
toISOString(ms) == "ms:" \o ToString(ms)

\* appSummary.set(filename, (appSummary.get(filename) ?? 0) + duration)
addSeconds(summary, app, duration) ==
  IF \E k \in 1..Len(summary) : summary[k].app = app
  THEN [k \in 1..Len(summary) |->
          IF summary[k].app = app
          THEN [summary[k] EXCEPT !.seconds = @ + duration] ELSE summary[k]]
  ELSE Append(summary, [app |-> app, seconds |-> duration])

\* fault variant of clipped: the window start does not clip
clipped_fromEventStart(e, w, nowS) ==
  LET clippedEnd == IF w.endTs # None THEN Min(eventEnd(e, nowS), w.endTs[1])
                    ELSE eventEnd(e, nowS)
  IN [start |-> e.start_time, end |-> clippedEnd,
      duration |-> Max(0, clippedEnd - e.start_time)]

\* index.ts:1083-1085: the clipped interval of a counted event
clipped(e, w, nowS) ==
  LET clippedStart == IF w.startTs # None THEN Max(e.start_time, w.startTs[1])
                      ELSE e.start_time
      clippedEnd == IF w.endTs # None THEN Min(eventEnd(e, nowS), w.endTs[1])
                    ELSE eventEnd(e, nowS)
  IN [start |-> clippedStart, end |-> clippedEnd,
      duration |-> Max(0, clippedEnd - clippedStart)]

\* index.ts:1094-1100: the enriched event
enriched(e, w, nowS) ==
  LET c == clipped(e, w, nowS) IN
  [id |-> e.id, start_time |-> e.start_time, end_time |-> e.end_time,
   filename |-> filenameOf(e),
   start |-> toISOString(c.start * MsPerSecond),
   end |-> toISOString(c.end * MsPerSecond),
   duration_seconds |-> c.duration]

\* fault variant of collect: the limit is not looked at
collect_unlimited(events, item, includeEvents, limit) ==
  IF includeEvents THEN Append(events, item) ELSE events

\* index.ts:1092-1100: events.push up to the limit
collect(events, item, includeEvents, limit) ==
  IF includeEvents /\ Len(events) < limit THEN Append(events, item) ELSE events

\* the accumulators before the loop (index.ts:1064-1067)
NoTotals ==
  [appSummary |-> <<>>, events |-> <<>>, totalCount |-> 0, totalSeconds |-> 0,
   counted |-> <<>>, durations |-> <<>>]

\* index.ts:1069-1102: the single pass over allEvents
RECURSIVE processEvents(_, _, _)
processEvents(allEvents, acc, ctx) ==
  IF allEvents = <<>> THEN acc
  ELSE LET e == Head(allEvents) IN
       IF outsideWindow(e, ctx.w, ctx.nowS) \/ filteredOut(e, ctx.appFilter)
       THEN processEvents(Tail(allEvents), acc, ctx)
       ELSE LET duration == clipped(e, ctx.w, ctx.nowS).duration IN
            processEvents(Tail(allEvents),
              [acc EXCEPT !.totalCount = @ + 1,
                          !.totalSeconds = @ + duration,
                          !.appSummary = addSeconds(@, filenameOf(e), duration),
                          !.events = collect(@, enriched(e, ctx.w, ctx.nowS),
                                             ctx.includeEvents, ctx.limit),
                          !.counted = Append(@, e.id),
                          !.durations = Append(@, duration)],
              ctx)

\* Array.sort((a, b) => b[1] - a[1]): stable, descending by seconds
RECURSIVE insertDesc(_, _)
insertDesc(sorted, x) ==
  IF sorted = <<>> THEN <<x>>
  ELSE IF Head(sorted).seconds >= x.seconds
       THEN <<Head(sorted)>> \o insertDesc(Tail(sorted), x)
       ELSE <<x>> \o sorted

RECURSIVE sortedSummary(_, _)
sortedSummary(entries, sorted) ==
  IF entries = <<>> THEN sorted
  ELSE sortedSummary(Tail(entries), insertDesc(sorted, Head(entries)))

\* the array index a property key spells, on the names of the model: the
\* canonical decimal strings of 0 .. 2^32 - 2
arrayIndex(key) == IF key = "2048" THEN Some(2048) ELSE None

\* Object.fromEntries(entries), as JSON.stringify lists it: an object's own
\* keys come with the array indices first, in ascending numeric order, and
\* then the other strings in the order they were added
fromEntries(entries) ==
  SortSeq(SelectSeq(entries, LAMBDA x : arrayIndex(x.app) # None),
          LAMBDA a, b : arrayIndex(a.app)[1] < arrayIndex(b.app)[1])
  \o SelectSeq(entries, LAMBDA x : arrayIndex(x.app) = None)

\* index.ts:1056-1116 for a fetched allEvents: the totals and the response body
timelineBody(args, allEvents, clock) ==
  LET includeEvents == includeEventsOf(args.include_events)
      ctx == [w |-> TimelineWindow(args, clock),
              appFilter |-> appFilterOf(args.app),
              includeEvents |-> includeEvents,
              limit |-> limitOf(args.limit),
              nowS |-> clock \div MsPerSecond]
      t == processEvents(allEvents, NoTotals, ctx)
  IN [counted |-> t.counted, durations |-> t.durations,
      body |-> [error |-> FALSE,
                total_events |-> t.totalCount,
                returned_events |-> Len(t.events),
                truncated |-> includeEvents /\ t.totalCount > Len(t.events),
                total_seconds |-> t.totalSeconds,
                summary |-> fromEntries(sortedSummary(t.appSummary, <<>>)),
                events |-> IF includeEvents THEN Some(t.events) ELSE None]]

\* the error response of the handler's catch (index.ts:1121-1126)
ErrorBody ==
  [error |-> TRUE, total_events |-> 0, returned_events |-> 0, truncated |-> FALSE,
   total_seconds |-> 0, summary |-> <<>>, events |-> None]

NoWarm ==
  [pc |-> "none",          \* none | list | entities | settled | then | closed
   wid |-> 0,              \* workspaceId (0: undefined)
   ws |-> 0,               \* the workspace whose entities are being fetched
   rest |-> <<>>,          \* the workspaces still to handle
   pend |-> {},            \* the kinds whose list request is pending
   log |-> <<>>,           \* history: the upstream requests issued, in order
   back |-> {},            \* history: the requests that have settled
   rejected |-> FALSE,     \* history: some request was rejected
   answered |-> FALSE,     \* history: some request was answered
   result |-> "none"]      \* none | pending | void (returned undefined) | rejected

\* the default of request()'s parameter retries, which no caller overrides
retries == 3

\* what one HTTP attempt of request() comes to: the status of the response,
\* or "network" when fetch() itself rejects
Answers == {"200", "204", "429", "401", "500", "network"}

\* one execution of TogglAPI.request
NoRequest ==
  [phase |-> "none",       \* none | fetch | rateWait | backoff | returned | thrown
   i |-> 0,                \* the loop counter
   attempts |-> <<>>,      \* history: the answers of the HTTP attempts made, in order
   result |-> ""]          \* the value returned or the message of the error thrown

\* toggl_create_time_entry: its arguments and its upstream request
NoCreate ==
  [args |-> <<>>,          \* the arguments of the call
   phase |-> "none",       \* none | create (the request is pending) | created
   posts |-> <<>>,         \* history: the payloads of the create requests issued
   entry |-> <<>>]         \* the entry the upstream answered with

ProjectIdsOf == {1, 2}

IdleCall ==
  [kind |-> "none",        \* none | get | hydrate | report | warm | clear | prune
   pc |-> "idle",          \* idle | lookup | awaitWarm | warming | fetch | prefetch | resolve |
                           \* done | error | failed
   awaits |-> 0,           \* ensureCache: the call whose warm this call awaits
   warm |-> NoWarm,        \* the warmCache execution this call started
   entries |-> <<>>,       \* hydrateTimeEntries: its argument
   i |-> 0,                \* index of the entry in the for loop
   j |-> 0,                \* index in entry.tag_ids
   stage |-> "",           \* the reference being resolved
   wait |-> FALSE,         \* an upstream request of this stage is pending
   pend |-> {},            \* prefetch: project ids whose request is pending
   cur |-> NoEntry,        \* hydEntry
   out |-> <<>>,           \* hydrated
   asked |-> [p \in ProjectIdsOf |-> 0],   \* history: upstream getProject requests of this hydration
   failed |-> {},          \* history: the ids whose upstream request failed (hydration:
                           \* project ids)
   served |-> {},          \* history: project ids whose upstream request succeeded
   unasked |-> {},         \* history: project ids answered null for want of an API client
   upfail |-> FALSE,       \* history: a request of this hydration failed, came back
                           \* empty, or was not made for want of an API client
   arg |-> 0,              \* a single getX call: the id asked for
   at |-> 0,               \* a single getX call: Date.now() at its cache lookup
   ret |-> Null,           \* a single getX call: the value returned
   tl |-> NoTimeline,      \* toggl_get_timeline: its arguments, its response body
   req |-> NoRequest,      \* a TogglAPI method: its request() execution
   cr |-> NoCreate,        \* toggl_create_time_entry: its arguments, its request
   raised |-> None,        \* history: the message of the error raised in the handler
   resp |-> None]          \* the error response the handler returned

Init ==
  /\ config \in [maxSize : MaxSizeChoices, ttl : TtlChoices,
                 defaultWorkspaceId : DefaultWorkspaceChoices]
  /\ api = FALSE
  /\ now = 0
  /\ store = [k \in Kinds |-> <<>>]
  /\ stats = [hits |-> 0, misses |-> 0, lastReset |-> 0]
  /\ cacheWarmed = FALSE
  /\ cacheWarmingPromise = 0
  /\ calls = [c \in CallIds |-> IdleCall]

\* the next call to be issued: calls are numbered in the order they start
Fresh(c) ==
  /\ calls[c].kind = "none"
  /\ IF c = 1 THEN TRUE ELSE calls[c - 1].kind # "none"

\* CacheManager.setAPI
setAPI ==
  /\ ~api
  /\ api' = TRUE
  /\ UNCHANGED <<config, now, store, stats, cacheWarmed, cacheWarmingPromise, calls>>

\* time passes
Tick ==
  /\ now < MaxTime
  /\ now' = now + 1
  /\ UNCHANGED <<config, api, store, stats, cacheWarmed, cacheWarmingPromise, calls>>

\* fault variant of fetchOrNull: a rejected request is not caught
rethrow(kind, id, outcome) ==
  IF outcome = "ok" THEN apiGet(kind, id) ELSE [Null EXCEPT !.id = -1]

\* try { const x = await this.api.getX(id); ...; return x } catch { return null }
fetchOrNull(kind, id, outcome) ==
  IF outcome = "ok" THEN apiGet(kind, id) ELSE Null

\* an exception that left a getX method
Thrown(res) == res.id = -1

\* fault variant of cacheFetched: whatever the request came to is cached
cacheFetched_always(cache, id, res, cfg, t) ==
  IF ~Thrown(res) THEN setCached(cache, id, res, cfg, t) ELSE cache

\* if (x) this.setCached(cache, id, x)
cacheFetched(cache, id, res, cfg, t) ==
  IF res # Null /\ ~Thrown(res) THEN setCached(cache, id, res, cfg, t) ELSE cache

\* hydrateTimeEntries:305-330 up to its first await, for call record r
hydrateBegin(r, entries) ==
  LET toFetch == projectsToFetch(entries, store["project"], now)
      r0 == [r EXCEPT !.entries = entries, !.out = <<>>, !.i = 1, !.j = 1,
                      !.cur = IF entries = <<>> THEN NoEntry ELSE Spread(entries[1])]
  IN IF Len(toFetch) > 0 /\ api
     THEN [call |-> [r0 EXCEPT !.pc = "prefetch", !.pend = Range(toFetch),
                               !.asked = [p \in ProjectIdsOf |->
                                            IF p \in Range(toFetch) THEN 1 ELSE 0]],
           misses |-> Len(toFetch)]
     ELSE [call |-> [r0 EXCEPT !.pc = IF entries = <<>> THEN "done" ELSE "resolve",
                               !.stage = "workspace", !.wait = FALSE],
           misses |-> 0]

\* the batches that fit the bound on hydrated entries
Affordable ==
  {b \in Batches : Len(b) + Sum([d \in CallIds |-> Len(calls[d].entries)]) <= MaxEntries}

\* a direct call of CacheManager.hydrateTimeEntries
hydrateTimeEntries(c) ==
  /\ Fresh(c)
  /\ \E entries \in Affordable :
       LET b == hydrateBegin([calls[c] EXCEPT !.kind = "hydrate"], entries) IN
       /\ calls' = [calls EXCEPT ![c] = b.call]
       /\ stats' = [stats EXCEPT !.misses = @ + b.misses]
  /\ UNCHANGED <<config, api, now, store, cacheWarmed, cacheWarmingPromise>>

\* one getProject of the prefetch settles (cache-manager.ts:119-128)
prefetchSettles(c) ==
  /\ calls[c].pc = "prefetch"
  /\ \E id \in calls[c].pend, outcome \in Outcomes :
       LET res == fetchOrNull("project", id, outcome)
           left == calls[c].pend \ {id}
           r1 == [calls[c] EXCEPT !.pend = left,
                    !.upfail = @ \/ outcome # "ok",
                    !.failed = IF outcome = "ok" THEN @ ELSE @ \cup {id},
                    !.served = IF outcome = "ok" THEN @ \cup {id} ELSE @]
       IN /\ store' = [store EXCEPT !["project"] = cacheFetched(@, id, res, config, now)]
          /\ calls' = [calls EXCEPT ![c] =
                         IF Thrown(res) THEN [r1 EXCEPT !.pc = "failed"]
                         ELSE IF left = {}
                         THEN [r1 EXCEPT !.pc = "resolve", !.stage = "workspace", !.wait = FALSE]
                         ELSE r1]
  /\ UNCHANGED <<config, api, now, stats, cacheWarmed, cacheWarmingPromise>>

\* fault variant of advance: an entry with an unresolved reference is not pushed
dropFailed(r, stage, res) ==
  LET e == r.entries[r.i]
      cur == withName(r.cur, e, stage, res, r.j)
      nxt == StageAfter(e, stage, res, r.j)
  IN IF nxt = "push"
     THEN LET out == IF res = Null THEN r.out ELSE Append(r.out, cur) IN
          IF r.i < Len(r.entries)
          THEN [r EXCEPT !.out = out, !.i = r.i + 1, !.j = 1, !.stage = "workspace",
                         !.wait = FALSE, !.cur = Spread(r.entries[r.i + 1])]
          ELSE [r EXCEPT !.out = out, !.pc = "done", !.wait = FALSE, !.cur = NoEntry]
     ELSE [r EXCEPT !.cur = cur, !.stage = nxt, !.wait = FALSE,
                    !.j = IF stage = "tag" THEN r.j + 1 ELSE 1]

\* hydrateTimeEntries:333-378: the loop body continues with res, the value the
\* awaited getX returned, up to the next await
advance(r, stage, res) ==
  LET e == r.entries[r.i]
      cur == withName(r.cur, e, stage, res, r.j)
      nxt == StageAfter(e, stage, res, r.j)
  IN IF nxt = "push"
     THEN IF r.i < Len(r.entries)
          THEN [r EXCEPT !.out = Append(r.out, cur), !.i = r.i + 1, !.j = 1,
                         !.stage = "workspace", !.wait = FALSE,
                         !.cur = Spread(r.entries[r.i + 1])]
          ELSE [r EXCEPT !.out = Append(r.out, cur), !.pc = "done", !.wait = FALSE,
                         !.cur = NoEntry]
     ELSE [r EXCEPT !.cur = cur, !.stage = nxt, !.wait = FALSE,
                    !.j = IF stage = "tag" THEN r.j + 1 ELSE 1]

\* getWorkspace / getProject / getClient / getTask / getUser / getTag up to the
\* upstream request: the counted cache lookup, then the request on a miss
getEntity(c) ==
  /\ calls[c].pc = "resolve" /\ ~calls[c].wait
  /\ LET r == calls[c]
         kind == r.stage
         id == TargetId(r.entries[r.i], r.cur, kind, r.j)
         got == getCached(store[kind], id, now)
     IN IF kind = "workspace" /\ id = 0
        THEN /\ calls' = [calls EXCEPT ![c] = advance(r, kind, Null)]
             /\ stats' = stats
        ELSE /\ stats' = StatsAfter(stats, got.hit)
             /\ calls' = [calls EXCEPT ![c] =
                            IF got.hit THEN advance(r, kind, got.data)
                            ELSE IF ~api
                            THEN [advance(r, kind, Null) EXCEPT
                                    !.upfail = TRUE,
                                    !.unasked = IF kind = "project" THEN @ \cup {id} ELSE @]
                            ELSE [r EXCEPT !.wait = TRUE,
                                           !.asked = IF kind = "project"
                                                     THEN [@ EXCEPT ![id] = @ + 1] ELSE @]]
  /\ UNCHANGED <<config, api, now, store, cacheWarmed, cacheWarmingPromise>>

\* the upstream request of a getX settles: cache the entity, return it or null
entitySettles(c) ==
  /\ calls[c].pc = "resolve" /\ calls[c].wait
  /\ \E outcome \in Outcomes :
       LET r == [calls[c] EXCEPT !.upfail = @ \/ outcome # "ok"]
           kind == r.stage
           id == TargetId(r.entries[r.i], r.cur, kind, r.j)
           res == fetchOrNull(kind, id, outcome)
           r1 == IF kind = "project"
                 THEN [r EXCEPT !.failed = IF outcome = "ok" THEN @ ELSE @ \cup {id},
                                !.served = IF outcome = "ok" THEN @ \cup {id} ELSE @]
                 ELSE r
       IN /\ store' = [store EXCEPT ![kind] = cacheFetched(@, id, res, config, now)]
          /\ calls' = [calls EXCEPT ![c] =
                         IF Thrown(res) THEN [r1 EXCEPT !.pc = "failed", !.wait = FALSE]
                         ELSE advance(r1, kind, res)]
  /\ UNCHANGED <<config, api, now, stats, cacheWarmed, cacheWarmingPromise>>

\* the ids a caller asks a single getX for (0: a falsy id)
AskedIds == {0, 1, 2}

\* fault variant of getOne: a get that finds its entry expired deletes it
getOne_deleting(c) ==
  /\ Fresh(c)
  /\ \E kind \in Kinds, id \in AskedIds :
       LET r == [calls[c] EXCEPT !.kind = "get", !.stage = kind, !.arg = id, !.at = now]
           got == getCached(store[kind], id, now)
       IN IF kind = "workspace" /\ id = 0
          THEN /\ calls' = [calls EXCEPT ![c] = [r EXCEPT !.pc = "done"]]
               /\ stats' = stats
               /\ store' = store
          ELSE /\ stats' = StatsAfter(stats, got.hit)
               /\ store' = IF got.hit THEN store
                            ELSE [store EXCEPT ![kind] = SelectSeq(@, LAMBDA e : e.id # id)]
               /\ calls' = [calls EXCEPT ![c] =
                              IF got.hit THEN [r EXCEPT !.pc = "done", !.ret = got.data]
                              ELSE IF ~api THEN [r EXCEPT !.pc = "done"]
                              ELSE [r EXCEPT !.pc = "lookup", !.wait = TRUE]]
  /\ UNCHANGED <<config, api, now, cacheWarmed, cacheWarmingPromise>>

\* a direct call of getWorkspace / getProject / getClient / getTask / getUser /
\* getTag (cache-manager.ts:77-253) up to the upstream request
getOne(c) ==
  /\ Fresh(c)
  /\ \E kind \in Kinds, id \in AskedIds :
       LET r == [calls[c] EXCEPT !.kind = "get", !.stage = kind, !.arg = id, !.at = now]
           got == getCached(store[kind], id, now)
       IN IF kind = "workspace" /\ id = 0
          THEN /\ calls' = [calls EXCEPT ![c] = [r EXCEPT !.pc = "done"]]
               /\ stats' = stats
          ELSE /\ stats' = StatsAfter(stats, got.hit)
               /\ calls' = [calls EXCEPT ![c] =
                              IF got.hit THEN [r EXCEPT !.pc = "done", !.ret = got.data]
                              ELSE IF ~api THEN [r EXCEPT !.pc = "done"]
                              ELSE [r EXCEPT !.pc = "lookup", !.wait = TRUE]]
  /\ UNCHANGED <<config, api, now, store, cacheWarmed, cacheWarmingPromise>>

\* the upstream request of a direct getX settles
oneSettles(c) ==
  /\ calls[c].kind = "get" /\ calls[c].wait
  /\ \E outcome \in Outcomes :
       LET r == calls[c]
           res == fetchOrNull(r.stage, r.arg, outcome)
           r1 == [r EXCEPT !.failed = IF outcome = "ok" THEN @ ELSE {r.arg}]
       IN /\ store' = [store EXCEPT ![r.stage] = cacheFetched(@, r.arg, res, config, now)]
          /\ calls' = [calls EXCEPT ![c] =
                         IF Thrown(res) THEN [r1 EXCEPT !.pc = "failed", !.wait = FALSE]
                         ELSE [r1 EXCEPT !.pc = "done", !.wait = FALSE, !.ret = res]]
  /\ UNCHANGED <<config, api, now, stats, cacheWarmed, cacheWarmingPromise>>

\* fault variant of clearCache: the stores are emptied, the counters are kept
clearCache_keepsStats ==
  /\ store' = [k \in Kinds |-> <<>>]
  /\ stats' = [stats EXCEPT !.lastReset = now]

\* CacheManager.clearCache
clearCache ==
  /\ store' = [k \in Kinds |-> <<>>]
  /\ stats' = [hits |-> 0, misses |-> 0, lastReset |-> now]

\* a call of CacheManager.pruneExpired
pruneExpired(c) ==
  /\ Fresh(c)
  /\ store' = [k \in Kinds |-> prune(store[k], now)]
  /\ calls' = [calls EXCEPT ![c] = [@ EXCEPT !.kind = "prune", !.pc = "done"]]
  /\ UNCHANGED <<config, api, now, stats, cacheWarmed, cacheWarmingPromise>>

\* case 'toggl_clear_cache'
toggl_clear_cache(c) ==
  /\ Fresh(c) /\ api
  /\ clearCache
  /\ cacheWarmed' = FALSE
  /\ calls' = [calls EXCEPT ![c] = [@ EXCEPT !.kind = "clear", !.pc = "done"]]
  /\ UNCHANGED <<config, api, now, cacheWarmingPromise>>

\* ------------------------------------------------------------------------
\* Cache warming
\* ------------------------------------------------------------------------
WarmKinds == {"project", "client", "tag"}

\* an upstream list request: GET /workspaces (ws 0) or a workspace's
\* projects, clients or tags
Fetch(what, ws) == [what |-> what, ws |-> ws]

\* the requests of Promise.all([getProjects, getClients, getTags]), in call order
Round(ws) == <<Fetch("project", ws), Fetch("client", ws), Fetch("tag", ws)>>

\* warmCache:272-278 up to its first await: getWorkspaces is requested
warmBegin(wid) ==
  [NoWarm EXCEPT !.pc = "list", !.wid = wid, !.result = "pending",
                 !.log = <<Fetch("workspaces", 0)>>]

\* a warmCache execution whose fetches have not all settled
InFlight(c) == calls[c].warm.pc \in {"list", "entities"}

\* fault variant of firstThree: every listed workspace is handled
firstThree_all(workspaces) == workspaces

\* workspaces.slice(0, 3)
firstThree(workspaces) ==
  SubSeq(workspaces, 1, IF Len(workspaces) < 3 THEN Len(workspaces) ELSE 3)

\* getWorkspaces / getProjects / getClients / getTags: the fetched list, or []
\* when the request is rejected (the catch of each)
listOrEmpty(list, outcome) == IF outcome = "ok" THEN list ELSE <<>>

\* a request of warm w settles with outcome
settleFetch(w, fetch, outcome) ==
  [w EXCEPT !.back = @ \cup {fetch},
            !.rejected = @ \/ outcome # "ok",
            !.answered = @ \/ outcome = "ok"]

\* warmCache:282-286 / 290-294: the three list requests of the next workspace
startRound(w, todo) ==
  [w EXCEPT !.pc = "entities", !.ws = Head(todo), !.rest = Tail(todo),
            !.pend = WarmKinds, !.log = @ \o Round(Head(todo))]

\* fault variant of returned: the execution is left pending after its last round
returned_pending(w) == [w EXCEPT !.pend = {}]

\* warmCache:298-302: the execution returns undefined
returned(w) == [w EXCEPT !.pc = "settled", !.pend = {}, !.result = "void"]

\* fault variant of warmListSettles: a rejected getWorkspaces is caught neither
\* by getWorkspaces nor by warmCache, whose promise rejects
warmListSettles_unguarded(c) ==
  /\ calls[c].warm.pc = "list"
  /\ \E outcome \in ListOutcomes :
       LET w == settleFetch(calls[c].warm, Fetch("workspaces", 0), outcome)
           workspaces == listOrEmpty(Entities("workspace", WorkspaceList), outcome)
           three == firstThree(workspaces)
           todo == IF w.wid # 0 THEN <<w.wid>>
                   ELSE [k \in 1..Len(three) |-> three[k].id]
       IN /\ store' = [store EXCEPT !["workspace"] = setCachedAll(@, workspaces, config, now)]
          /\ calls' = [calls EXCEPT ![c].warm =
                         IF outcome # "ok"
                         THEN [w EXCEPT !.pc = "settled", !.result = "rejected"]
                         ELSE IF todo = <<>> THEN returned(w) ELSE startRound(w, todo)]
  /\ UNCHANGED <<config, api, now, stats, cacheWarmed, cacheWarmingPromise>>

\* getWorkspaces settles (cache-manager.ts:99-109), then warmCache:281-296
\* starts the first round of getProjects / getClients / getTags
warmListSettles(c) ==
  /\ calls[c].warm.pc = "list"
  /\ \E outcome \in ListOutcomes :
       LET w == settleFetch(calls[c].warm, Fetch("workspaces", 0), outcome)
           workspaces == listOrEmpty(Entities("workspace", WorkspaceList), outcome)
           three == firstThree(workspaces)
           todo == IF w.wid # 0 THEN <<w.wid>>
                   ELSE [k \in 1..Len(three) |-> three[k].id]
       IN /\ store' = [store EXCEPT !["workspace"] = setCachedAll(@, workspaces, config, now)]
          /\ calls' = [calls EXCEPT ![c].warm =
                         IF todo = <<>> THEN returned(w) ELSE startRound(w, todo)]
  /\ UNCHANGED <<config, api, now, stats, cacheWarmed, cacheWarmingPromise>>

\* one of getProjects / getClients / getTags settles (cache-manager.ts:131-145,
\* 166-180, 255-269); the Promise.all resolves when all three have
warmEntitiesSettle(c) ==
  /\ calls[c].warm.pc = "entities"
  /\ \E kind \in calls[c].warm.pend, outcome \in ListOutcomes :
       LET w == settleFetch(calls[c].warm, Fetch(kind, calls[c].warm.ws), outcome)
           list == listOrEmpty(Entities(kind, ListIds(kind, w.ws)), outcome)
           left == w.pend \ {kind}
       IN /\ store' = [store EXCEPT ![kind] = setCachedAll(@, list, config, now)]
          /\ calls' = [calls EXCEPT ![c].warm =
                         IF left # {} THEN [w EXCEPT !.pend = left]
                         ELSE IF w.rest # <<>> THEN startRound(w, w.rest)
                         ELSE returned(w)]
  /\ UNCHANGED <<config, api, now, stats, cacheWarmed, cacheWarmingPromise>>

\* fault variant of ensureCache: only cacheWarmed guards the warm, not the promise
ensureCache_flagOnly(c, r) ==
  IF cacheWarmed
  THEN [call |-> [r EXCEPT !.pc = "fetch"], promise |-> cacheWarmingPromise]
  ELSE [call |-> [r EXCEPT !.pc = "awaitWarm", !.awaits = c,
                           !.warm = warmBegin(config.defaultWorkspaceId)],
        promise |-> c]

\* ensureCache (index.ts:138-151) up to its await, for call c with record r
ensureCache(c, r) ==
  IF cacheWarmed
  THEN [call |-> [r EXCEPT !.pc = "fetch"], promise |-> cacheWarmingPromise]
  ELSE IF cacheWarmingPromise = 0
  THEN [call |-> [r EXCEPT !.pc = "awaitWarm", !.awaits = c,
                           !.warm = warmBegin(config.defaultWorkspaceId)],
        promise |-> c]
  ELSE [call |-> [r EXCEPT !.pc = "awaitWarm", !.awaits = cacheWarmingPromise],
        promise |-> cacheWarmingPromise]

\* a tool that hydrates (toggl_get_time_entries, toggl_daily_report, ...):
\* await ensureCache(), then the time entries request
toggl_report(c) ==
  /\ Fresh(c) /\ api
  /\ LET e == ensureCache(c, [calls[c] EXCEPT !.kind = "report"]) IN
     /\ calls' = [calls EXCEPT ![c] = e.call]
     /\ cacheWarmingPromise' = e.promise
  /\ UNCHANGED <<config, api, now, store, stats, cacheWarmed>>

\* .then(() => { cacheWarmed = true; }) of the promise ensureCache stored
warmThen(c) ==
  /\ calls[c].kind = "report" /\ calls[c].warm.pc = "settled"
  /\ cacheWarmed' = TRUE
  /\ calls' = [calls EXCEPT ![c].warm.pc = "then"]
  /\ UNCHANGED <<config, api, now, store, stats, cacheWarmingPromise>>

\* fault variant of warmFinally: the chain ends without clearing the slot
warmFinally_keeps(c) ==
  /\ calls[c].kind = "report" /\ calls[c].warm.pc = "then"
  /\ calls' = [calls EXCEPT ![c].warm.pc = "closed"]
  /\ UNCHANGED <<config, api, now, store, stats, cacheWarmed, cacheWarmingPromise>>

\* .finally(() => { cacheWarmingPromise = null; })
warmFinally(c) ==
  /\ calls[c].kind = "report" /\ calls[c].warm.pc = "then"
  /\ cacheWarmingPromise' = 0
  /\ calls' = [calls EXCEPT ![c].warm.pc = "closed"]
  /\ UNCHANGED <<config, api, now, store, stats, cacheWarmed>>

\* await cacheWarmingPromise returns: the tool requests the time entries
ensureCacheResumes(c) ==
  /\ calls[c].pc = "awaitWarm" /\ calls[calls[c].awaits].warm.pc = "closed"
  /\ calls' = [calls EXCEPT ![c].pc = "fetch"]
  /\ UNCHANGED <<config, api, now, store, stats, cacheWarmed, cacheWarmingPromise>>

\* the time entries request settles with no entry (hydrateTimeEntries([])
\* returns at once) or rejects (the handler answers with the error)
noEntries(c) ==
  /\ calls[c].pc = "fetch"
  /\ \E outcome \in ListOutcomes :
       calls' = [calls EXCEPT ![c].pc = IF outcome = "ok" THEN "done" ELSE "error"]
  /\ UNCHANGED <<config, api, now, store, stats, cacheWarmed, cacheWarmingPromise>>

\* the time entries request of a hydrating tool settles: the handler answers
\* with the error when it rejects, and calls hydrateTimeEntries(entries)
\* otherwise (index.ts:839-840)
entriesSettle(c) ==
  /\ calls[c].pc = "fetch"
  /\ \E outcome \in ListOutcomes, entries \in Affordable :
       IF outcome # "ok"
       THEN /\ calls' = [calls EXCEPT ![c].pc = "error"]
            /\ stats' = stats
       ELSE LET b == hydrateBegin(calls[c], entries) IN
            /\ calls' = [calls EXCEPT ![c] = b.call]
            /\ stats' = [stats EXCEPT !.misses = @ + b.misses]
  /\ UNCHANGED <<config, api, now, store, cacheWarmed, cacheWarmingPromise>>

\* case 'toggl_warm_cache' up to its await: cache.warmCache(workspaceId)
toggl_warm_cache(c) ==
  /\ Fresh(c) /\ api
  /\ \E arg \in WorkspaceArgs :
       LET workspaceId == IF arg > 0 THEN arg ELSE config.defaultWorkspaceId IN
       calls' = [calls EXCEPT ![c] = [@ EXCEPT !.kind = "warm", !.pc = "warming",
                                                !.warm = warmBegin(workspaceId)]]
  /\ UNCHANGED <<config, api, now, store, stats, cacheWarmed, cacheWarmingPromise>>

\* case 'toggl_warm_cache' after the await: cacheWarmed = true, answer
warmToolResumes(c) ==
  /\ calls[c].kind = "warm" /\ calls[c].warm.pc = "settled"
  /\ cacheWarmed' = TRUE
  /\ calls' = [calls EXCEPT ![c] = [@ EXCEPT !.pc = "done", !.warm.pc = "closed"]]
  /\ UNCHANGED <<config, api, now, store, stats, cacheWarmingPromise>>

\* case 'toggl_get_timeline' up to its await: api.getTimeline() is requested
toggl_get_timeline(c) ==
  /\ Fresh(c) /\ api
  /\ \A d \in CallIds : calls[d].kind # "timeline"
  /\ \E args \in TimelineArgs :
       calls' = [calls EXCEPT ![c] = [@ EXCEPT !.kind = "timeline", !.pc = "timeline",
                                                !.tl.args = args]]
  /\ UNCHANGED <<config, api, now, store, stats, cacheWarmed, cacheWarmingPromise>>

\* api.getTimeline() settles: the handler answers with the summary, or with
\* an error when the request is rejected or the period is invalid
timelineSettles(c) ==
  /\ calls[c].pc = "timeline"
  /\ \E outcome \in ListOutcomes, allEvents \in TimelineResponses, clock \in ClockReadings :
       LET args == calls[c].tl.args
           r == [calls[c] EXCEPT !.tl.clock = clock, !.tl.upstream = outcome,
                                 !.tl.response = listOrEmpty(allEvents, outcome)]
       IN calls' = [calls EXCEPT ![c] =
                      IF outcome # "ok" \/ (args.period # None /\ ~isDatePeriod(args.period[1]))
                      THEN [r EXCEPT !.pc = "error", !.tl.body = Some(ErrorBody)]
                      ELSE LET t == timelineBody(args, allEvents, clock) IN
                           [r EXCEPT !.pc = "done", !.tl.counted = t.counted,
                                     !.tl.durations = t.durations,
                                     !.tl.body = Some(t.body)]]
  /\ UNCHANGED <<config, api, now, store, stats, cacheWarmed, cacheWarmingPromise>>

\* the timeline tool: one call, which neither reads nor writes the cache
NextTimeline ==
  \/ setAPI
  \/ \E c \in CallIds : toggl_get_timeline(c)
  \/ \E c \in CallIds : timelineSettles(c)

SpecTimeline == Init /\ [][NextTimeline]_vars

\* the tool layer's warm guard, on an account without time entries
NextWarm ==
  \/ setAPI
  \/ \E c \in CallIds : toggl_report(c)
  \/ \E c \in CallIds : toggl_warm_cache(c)
  \/ \E c \in CallIds : toggl_clear_cache(c)
  \/ \E c \in CallIds : warmListSettles(c)
  \/ \E c \in CallIds : warmEntitiesSettle(c)
  \/ \E c \in CallIds : warmThen(c)
  \/ \E c \in CallIds : warmFinally(c)
  \/ \E c \in CallIds : ensureCacheResumes(c)
  \/ \E c \in CallIds : noEntries(c)
  \/ \E c \in CallIds : warmToolResumes(c)

SpecWarm == Init /\ [][NextWarm]_vars

\* the reactions of a settled promise are run: the microtask queue is emptied
\* before the event loop takes the next task
SpecWarmLive ==
  /\ SpecWarm
  /\ \A c \in CallIds : WF_vars(warmThen(c)) /\ WF_vars(warmFinally(c))

\* fault variant of ensureCacheFlag: a caller that finds a warm in flight
\* waits for it instead of starting its own
ensureCacheFlag_joins(c, r) ==
  IF cacheWarmed THEN [r EXCEPT !.pc = "fetch"]
  ELSE IF \E d \in CallIds : InFlight(d)
  THEN [r EXCEPT !.pc = "awaitWarm", !.awaits = CHOOSE d \in CallIds : InFlight(d)]
  ELSE [r EXCEPT !.pc = "awaitWarm", !.awaits = c,
                 !.warm = warmBegin(config.defaultWorkspaceId)]

\* the earlier ensureCache, guarded by cacheWarmed alone, up to its await:
\* if (!cacheWarmed) { await cache.warmCache(defaultWorkspaceId); ... }
ensureCacheFlag(c, r) ==
  IF cacheWarmed THEN [r EXCEPT !.pc = "fetch"]
  ELSE [r EXCEPT !.pc = "awaitWarm", !.awaits = c,
                 !.warm = warmBegin(config.defaultWorkspaceId)]

\* a hydrating tool of the earlier index.ts: await ensureCache(), then the
\* time entries request
toggl_report_flag(c) ==
  /\ Fresh(c) /\ api
  /\ calls' = [calls EXCEPT ![c] = ensureCacheFlag(c, [calls[c] EXCEPT !.kind = "report"])]
  /\ UNCHANGED <<config, api, now, store, stats, cacheWarmed, cacheWarmingPromise>>

\* the earlier ensureCache after its await: cacheWarmed = true, and the tool
\* requests the time entries
ensureCacheFlagResumes(c) ==
  /\ calls[c].pc = "awaitWarm" /\ calls[c].awaits = c /\ calls[c].warm.pc = "settled"
  /\ cacheWarmed' = TRUE
  /\ calls' = [calls EXCEPT ![c] = [@ EXCEPT !.pc = "fetch", !.warm.pc = "closed"]]
  /\ UNCHANGED <<config, api, now, store, stats, cacheWarmingPromise>>

\* the hydrating tools of the earlier index.ts, whose ensureCache is guarded
\* by the cacheWarmed flag alone, on an account without time entries
NextFlag ==
  \/ setAPI
  \/ \E c \in CallIds : toggl_report_flag(c)
  \/ \E c \in CallIds : warmListSettles(c)
  \/ \E c \in CallIds : warmEntitiesSettle(c)
  \/ \E c \in CallIds : ensureCacheFlagResumes(c)
  \/ \E c \in CallIds : noEntries(c)

SpecFlag == Init /\ [][NextFlag]_vars

\* the error thrown for a response that is not ok (toggl-api.ts:64-75), or
\* the rejection of fetch()
errorOf(answer) ==
  IF answer \in {"401", "403"} THEN "Authentication failed (" \o answer \o ")"
  ELSE IF answer = "network" THEN "fetch failed"
  ELSE "Toggl API error (" \o answer \o ")"

\* the value request() returns for an ok response: {} for 204, else its json
valueOf(answer) == IF answer = "204" THEN "{}" ELSE "json"

\* fault variant of attemptSettled: a 429 answer is thrown like any other
\* response that is not ok
attemptSettled_rateLimitIsError(r, answer) ==
  LET r1 == [r EXCEPT !.attempts = Append(@, answer)] IN
  IF answer \in {"200", "204"}
  THEN [r1 EXCEPT !.phase = "returned", !.result = valueOf(answer)]
  ELSE IF r.i = retries - 1
  THEN [r1 EXCEPT !.phase = "thrown", !.result = errorOf(answer)]
  ELSE [r1 EXCEPT !.phase = "backoff"]

\* the body of request()'s loop once fetch() has settled (toggl-api.ts:47-87),
\* up to the next await or to the end of request()
attemptSettled(r, answer) ==
  LET r1 == [r EXCEPT !.attempts = Append(@, answer)] IN
  IF answer = "429" THEN [r1 EXCEPT !.phase = "rateWait"]
  ELSE IF answer \in {"200", "204"}
  THEN [r1 EXCEPT !.phase = "returned", !.result = valueOf(answer)]
  ELSE IF r.i = retries - 1
  THEN [r1 EXCEPT !.phase = "thrown", !.result = errorOf(answer)]
  ELSE [r1 EXCEPT !.phase = "backoff"]

\* a method of TogglAPI calls request(): the first fetch() is issued
request(c) ==
  /\ Fresh(c)
  /\ calls' = [calls EXCEPT ![c] = [@ EXCEPT !.kind = "request", !.pc = "request",
                                           !.req.phase = "fetch"]]
  /\ UNCHANGED <<config, api, now, store, stats, cacheWarmed, cacheWarmingPromise>>

\* the fetch() of the current attempt settles
attemptSettles(c) ==
  /\ calls[c].req.phase = "fetch"
  /\ \E answer \in Answers :
       LET r == attemptSettled(calls[c].req, answer) IN
       calls' = [calls EXCEPT ![c] = [@ EXCEPT !.req = r,
                                              !.pc = IF r.phase = "returned" THEN "done"
                                                     ELSE IF r.phase = "thrown" THEN "failed"
                                                     ELSE @]]
  /\ UNCHANGED <<config, api, now, store, stats, cacheWarmed, cacheWarmingPromise>>

\* the timer of the rate-limit wait or of the backoff fires: i++, then the
\* next attempt, or 'Max retries reached' when the loop has ended
timerFires(c) ==
  /\ calls[c].req.phase \in {"rateWait", "backoff"}
  /\ calls' = [calls EXCEPT ![c] =
                 IF calls[c].req.i + 1 < retries
                 THEN [@ EXCEPT !.req.i = @ + 1, !.req.phase = "fetch"]
                 ELSE [@ EXCEPT !.req.i = @ + 1, !.req.phase = "thrown",
                                !.req.result = "Max retries reached", !.pc = "failed"]]
  /\ UNCHANGED <<config, api, now, store, stats, cacheWarmed, cacheWarmingPromise>>

\* the upstream requests of TogglAPI
NextRequest ==
  \/ \E c \in CallIds : request(c)
  \/ \E c \in CallIds : attemptSettles(c)
  \/ \E c \in CallIds : timerFires(c)

SpecRequest == Init /\ [][NextRequest]_vars

\* every fetch() settles and every timer fires
SpecRequestLive ==
  /\ SpecRequest
  /\ \A c \in CallIds : WF_vars(attemptSettles(c)) /\ WF_vars(timerFires(c))

\* typeof value === 'string', for an argument that is None, Some(number) or Text(string)
isString(value) == Len(value) = 2

\* isPositiveInteger (types.ts:292-294), for whole numbers
isPositiveInteger(value) == isNumber(value) /\ value[1] > 0

\* new Date(str).getTime() in ms, None for NaN
getTime(str) ==
  IF str = "1970-01-01T00:00:00Z" THEN Some(0)
  ELSE IF str = "1970-01-01T00:00:00.500Z" THEN Some(500)
  ELSE IF str = "1970-01-01T00:00:01Z" THEN Some(1000)
  ELSE None

\* isValidISODate (types.ts:304-308)
isValidISODate(value) == isString(value) /\ getTime(value[2]) # None

\* the arguments of toggl_create_time_entry
StampArgs ==
  {None, Some(1000), Text("soon"), Text("1970-01-01T00:00:00Z"),
   Text("1970-01-01T00:00:00.500Z"), Text("1970-01-01T00:00:01Z")}

CreateArgs == [workspace_id : {None, Some(0), Some(1), Text("1")},
               start : StampArgs, stop : StampArgs]

\* the errors request() throws to a method of TogglAPI
RequestErrors ==
  {"Max retries reached"} \cup {errorOf(answer) : answer \in Answers \ {"200", "204", "429"}}

\* fault variant of requireWorkspaceId: without an id it returns undefined
requireWorkspaceId_lenient(providedId, defaultWorkspaceId) ==
  IF isPositiveInteger(providedId) THEN Some(providedId[1]) ELSE Some(defaultWorkspaceId)

\* requireWorkspaceId (index.ts:154-158): the id, or None when it throws
requireWorkspaceId(providedId, defaultWorkspaceId) ==
  IF isPositiveInteger(providedId) THEN Some(providedId[1])
  ELSE IF defaultWorkspaceId # 0 THEN Some(defaultWorkspaceId)
  ELSE None

\* case 'toggl_create_time_entry' up to its await (index.ts:733-749): the
\* message of the error thrown, or the workspace and the duration in seconds
createChecked(args, defaultWorkspaceId) ==
  LET workspaceId == requireWorkspaceId(args.workspace_id, defaultWorkspaceId)
      none == [error |-> None, workspaceId |-> 0, start |-> 0, stop |-> 0, duration |-> 0]
  IN IF workspaceId = None
     THEN [none EXCEPT !.error = Some("Workspace ID required (set TOGGL_DEFAULT_WORKSPACE_ID or provide workspace_id)")]
     ELSE IF ~isValidISODate(args.start)
     THEN [none EXCEPT !.error = Some("start is required and must be a valid ISO 8601 date (e.g., 2026-01-10T09:00:00Z)")]
     ELSE IF ~isValidISODate(args.stop)
     THEN [none EXCEPT !.error = Some("stop is required and must be a valid ISO 8601 date (e.g., 2026-01-10T17:00:00Z)")]
     ELSE LET startTime == getTime(args.start[2])[1]
              stopTime == getTime(args.stop[2])[1]
              durationSeconds == (stopTime - startTime) \div MsPerSecond
          IN IF durationSeconds <= 0
             THEN [none EXCEPT !.error = Some("Stop time must be after start time")]
             ELSE [none EXCEPT !.workspaceId = workspaceId[1], !.start = startTime,
                               !.stop = stopTime, !.duration = durationSeconds]

\* fault variant of catchError: the error leaves the handler, whose promise rejects
catchError_rethrows(r, message) ==
  [r EXCEPT !.pc = "rejected", !.raised = Some(message)]

\* the catch of the tool-call handler (index.ts:1122-1128): the error raised
\* in the switch is answered as { error: true, message }
catchError(r, message) ==
  [r EXCEPT !.pc = "error", !.raised = Some(message),
            !.resp = Some([error |-> TRUE, message |-> message])]

\* the time entry the upstream creates
Created(workspaceId) == TimeEntry(6, workspaceId, 0, 0, 0, <<>>)

\* case 'toggl_create_time_entry' up to its first await: the checks, then
\* api.createTimeEntry() is requested
toggl_create_time_entry(c) ==
  /\ Fresh(c) /\ api
  /\ \E args \in CreateArgs :
       LET r == [calls[c] EXCEPT !.kind = "create", !.cr.args = args]
           checked == createChecked(args, config.defaultWorkspaceId)
       IN calls' = [calls EXCEPT ![c] =
                      IF checked.error # None THEN catchError(r, checked.error[1])
                      ELSE [r EXCEPT !.pc = "create", !.cr.phase = "create",
                                     !.cr.posts = Append(@, [workspace_id |-> checked.workspaceId,
                                                             start |-> checked.start,
                                                             stop |-> checked.stop,
                                                             duration |-> checked.duration])]]
  /\ UNCHANGED <<config, api, now, store, stats, cacheWarmed, cacheWarmingPromise>>

\* api.createTimeEntry() settles: the handler answers with the error when it
\* rejects, and calls ensureCache() otherwise (index.ts:751-762)
createSettles(c) ==
  /\ calls[c].pc = "create"
  /\ \E outcome \in {"ok"} \cup RequestErrors :
       IF outcome # "ok"
       THEN /\ calls' = [calls EXCEPT ![c] = catchError(calls[c], outcome)]
            /\ cacheWarmingPromise' = cacheWarmingPromise
       ELSE LET r == [calls[c] EXCEPT !.kind = "report", !.cr.phase = "created",
                                      !.cr.entry = <<Created(calls[c].cr.posts[1].workspace_id)>>]
                e == ensureCache(c, r)
            IN /\ calls' = [calls EXCEPT ![c] = e.call]
               /\ cacheWarmingPromise' = e.promise
  /\ UNCHANGED <<config, api, now, store, stats, cacheWarmed>>

\* await ensureCache() returns: cache.hydrateTimeEntries([entry]) (index.ts:763)
createHydrates(c) ==
  /\ calls[c].cr.phase = "created"
  /\ \/ calls[c].pc = "fetch"
     \/ calls[c].pc = "awaitWarm" /\ calls[calls[c].awaits].warm.pc = "closed"
  /\ LET b == hydrateBegin(calls[c], calls[c].cr.entry) IN
     /\ calls' = [calls EXCEPT ![c] = b.call]
     /\ stats' = [stats EXCEPT !.misses = @ + b.misses]
  /\ UNCHANGED <<config, api, now, store, cacheWarmed, cacheWarmingPromise>>

\* default: throw new Error(`Unknown tool: ${name}`)
unknownTool(c) ==
  /\ Fresh(c) /\ api
  /\ \E name \in {"toggl_frobnicate"} :
       calls' = [calls EXCEPT ![c] =
                   catchError([@ EXCEPT !.kind = "unknown"], "Unknown tool: " \o name)]
  /\ UNCHANGED <<config, api, now, store, stats, cacheWarmed, cacheWarmingPromise>>

\* the tool-call handler: toggl_create_time_entry and an unknown tool
NextHandler ==
  \/ setAPI
  \/ \E c \in CallIds : toggl_create_time_entry(c)
  \/ \E c \in CallIds : createSettles(c)
  \/ \E c \in CallIds : createHydrates(c)
  \/ \E c \in CallIds : unknownTool(c)
  \/ \E c \in CallIds : warmListSettles(c)
  \/ \E c \in CallIds : warmEntitiesSettle(c)
  \/ \E c \in CallIds : warmThen(c)
  \/ \E c \in CallIds : warmFinally(c)
  \/ \E c \in CallIds : getEntity(c)
  \/ \E c \in CallIds : entitySettles(c)

SpecHandler == Init /\ [][NextHandler]_vars

\* the hydrating tools, on an account with time entries
NextTool ==
  \/ setAPI
  \/ \E c \in CallIds : toggl_report(c)
  \/ \E c \in CallIds : warmListSettles(c)
  \/ \E c \in CallIds : warmEntitiesSettle(c)
  \/ \E c \in CallIds : warmThen(c)
  \/ \E c \in CallIds : warmFinally(c)
  \/ \E c \in CallIds : ensureCacheResumes(c)
  \/ \E c \in CallIds : entriesSettle(c)
  \/ \E c \in CallIds : prefetchSettles(c)
  \/ \E c \in CallIds : getEntity(c)
  \/ \E c \in CallIds : entitySettles(c)

SpecTool == Init /\ [][NextTool]_vars

\* every upstream request eventually resolves or rejects, and the event loop
\* runs every continuation that is ready
SpecToolLive ==
  /\ SpecTool
  /\ \A c \in CallIds :
       /\ WF_vars(warmListSettles(c)) /\ WF_vars(warmEntitiesSettle(c))
       /\ WF_vars(warmThen(c)) /\ WF_vars(warmFinally(c))
       /\ WF_vars(ensureCacheResumes(c)) /\ WF_vars(entriesSettle(c))
       /\ WF_vars(prefetchSettles(c)) /\ WF_vars(getEntity(c))
       /\ WF_vars(entitySettles(c))

\* CacheManager used as a library: hydrations, clears and prunes
NextHydrate ==
  \/ setAPI
  \/ Tick
  \/ \E c \in CallIds : hydrateTimeEntries(c)
  \/ \E c \in CallIds : prefetchSettles(c)
  \/ \E c \in CallIds : getEntity(c)
  \/ \E c \in CallIds : entitySettles(c)
  \/ \E c \in CallIds : pruneExpired(c)
  \/ \E c \in CallIds : toggl_clear_cache(c)

SpecHydrate == Init /\ [][NextHydrate]_vars

\* every call so far has returned: the caller awaits each call before the next
Sequential == \A c \in CallIds : calls[c].pc \in {"idle", "done", "error", "failed"}

\* CacheManager used as a library by one caller that awaits each call:
\* single fetches, clears and prunes, while time passes
NextStore ==
  \/ setAPI
  \/ Tick
  \/ \E c \in CallIds : Sequential /\ getOne(c)
  \/ \E c \in CallIds : oneSettles(c)
  \/ \E c \in CallIds : Sequential /\ pruneExpired(c)
  \/ \E c \in CallIds : Sequential /\ toggl_clear_cache(c)

SpecStore == Init /\ [][NextStore]_vars

\* ------------------------------------------------------------------------
\* Properties
\* ------------------------------------------------------------------------
HydrateCalls == {c \in CallIds : calls[c].kind = "hydrate"}
EnsureCallers == {c \in CallIds : calls[c].kind = "report"}
GetCalls == {c \in CallIds : calls[c].kind = "get"}

\* the hydrated entries a call has produced, the one under construction included
Produced(c) ==
  Range(calls[c].out) \cup
    (IF calls[c].pc = "resolve" THEN {calls[c].cur} ELSE {})

\* C1: in every reachable state every kind's store holds at most
\* floor(maxSize / 6) entries.
C1_SizeWithinFloor ==
  \A k \in Kinds : Len(store[k]) <= config.maxSize \div 6

\* C2: process-wide, at most one warmCache execution is in flight at any time,
\* whether started by ensureCache or by the toggl_warm_cache tool.
C2_AtMostOneWarmInFlight ==
  Cardinality({c \in CallIds : InFlight(c)}) <= 1

\* some warmCache execution has completed
WarmCompleted == \E c \in CallIds : calls[c].warm.pc \in {"settled", "then", "closed"}

\* the ensureCache callers that started a warmCache execution
EnsureStarters == {c \in EnsureCallers : calls[c].warm.pc # "none"}

\* C3: the ensureCache calls that start while no warm has completed start
\* exactly one warmCache execution between them and all await it; a caller
\* that awaited a warm has resumed only after that warm settled and its
\* promise chain ran.
C3_OneWarmForConcurrentEnsure ==
  /\ (~WarmCompleted /\ EnsureCallers # {}) =>
       /\ Cardinality(EnsureStarters) = 1
       /\ \A c \in EnsureCallers :
            /\ calls[c].pc = "awaitWarm"
            /\ calls[c].awaits \in EnsureStarters
            /\ InFlight(calls[c].awaits)
  /\ \A c \in EnsureCallers :
       (calls[c].awaits # 0 /\ calls[c].pc # "awaitWarm") =>
         calls[calls[c].awaits].warm.pc = "closed"

\* two ensureCache callers shared one warm and both have resumed after it
C3_Witness ==
  \E c, d \in EnsureCallers :
    /\ c # d
    /\ calls[c].awaits = c /\ calls[d].awaits = c
    /\ calls[d].warm.pc = "none"
    /\ calls[c].pc \in {"fetch", "done", "error"}
    /\ calls[d].pc \in {"fetch", "done", "error"}

\* the display name a hydrated entry carries for a resolved kind
DisplayName(h, kind) ==
  CASE kind = "workspace" -> h.workspace_name
    [] kind = "project" -> h.project_name
    [] kind = "client" -> h.client_name
    [] kind = "task" -> h.task_name
    [] kind = "user" -> h.user_name

\* the id a hydrated entry references for a resolved kind
RefId(h, kind) ==
  CASE kind = "workspace" -> h.workspace_id
    [] kind = "project" -> h.project_id
    [] kind = "client" -> h.client_id
    [] kind = "task" -> h.task_id
    [] kind = "user" -> h.user_id

\* C4: hydrateTimeEntries never fails because of a resolution failure: no
\* call ends by an exception, a call under way can always take its next step,
\* a finished call has a result for its whole batch, and every reference
\* whose resolution returned nothing shows the placeholder "<Kind> <id>".
C4_HydrationNeverFails ==
  \A c \in HydrateCalls :
    /\ calls[c].pc # "failed"
    /\ calls[c].pc \in {"prefetch", "resolve"} =>
         ENABLED (prefetchSettles(c) \/ getEntity(c) \/ entitySettles(c))
    /\ calls[c].pc = "done" => Len(calls[c].out) = Len(calls[c].entries)
    /\ \A h \in Produced(c) : \A kind \in h.tried :
         h.got[kind] = Null => DisplayName(h, kind) = Some(Placeholder(kind, RefId(h, kind)))

\* a hydration finished although upstream requests failed, with an entry
\* showing placeholders for its project, task and user
C4_Witness ==
  \E c \in HydrateCalls :
    /\ calls[c].pc = "done" /\ calls[c].failed # {}
    /\ \E h \in Range(calls[c].out) :
         /\ {"project", "task", "user"} \subseteq h.tried
         /\ h.project_name = Some("Project 1")
         /\ h.task_name = Some("Task 1")
         /\ h.user_name = Some("User 2")

C6_WorkspaceNameSet ==
  \A c \in HydrateCalls : \A h \in Range(calls[c].out) :
    /\ h.workspace_name # None
    /\ h.workspace_name[1] # ""
    /\ h.got["workspace"] # Null =>
         /\ h.workspace_name = Some(h.got["workspace"].name)
         /\ h.got["workspace"] = UpstreamEntity("workspace", h.workspace_id)
    /\ h.got["workspace"] = Null =>
         h.workspace_name = Some(Placeholder("workspace", h.workspace_id))

\* one hydration returned an entry with a resolved workspace name, one an
\* entry with the fallback
C6_Witness ==
  /\ \E c \in HydrateCalls : \E h \in Range(calls[c].out) :
       h.workspace_name = Some("workspace-1")
  /\ \E c \in HydrateCalls : \E h \in Range(calls[c].out) :
       h.workspace_name = Some("Workspace 1")

\* the entry of id in a Map that holds it
EntryOf(cache, id) == cache[IndexOf(cache, id)]

\* C7: an entry inserted at time T with ttl D is stamped T and D, and a get of
\* it is a hit at every time < T + D and a miss at every time >= T + D.
C7_TtlValidity ==
  [][\A c \in CallIds :
       /\ (calls[c].kind = "none" /\ calls'[c].kind = "get"
             /\ has(store[calls'[c].stage], calls'[c].arg)) =>
            LET e == EntryOf(store[calls'[c].stage], calls'[c].arg) IN
            /\ now < e.timestamp + config.ttl =>
                 /\ stats'.hits = stats.hits + 1 /\ stats'.misses = stats.misses
                 /\ calls'[c].pc = "done" /\ calls'[c].ret = e.data
            /\ now >= e.timestamp + config.ttl =>
                 /\ stats'.misses = stats.misses + 1 /\ stats'.hits = stats.hits
                 /\ calls'[c].ret = Null
       /\ (calls[c].kind = "get" /\ calls[c].wait /\ calls'[c].ret # Null) =>
            LET e == EntryOf(store'[calls[c].stage], calls[c].arg) IN
            e.timestamp = now /\ e.ttl = config.ttl
    ]_vars

\* a get at time T + D found its entry present but expired and went on to
\* ask the upstream
C7_Witness ==
  \E c \in GetCalls :
    /\ calls[c].wait /\ calls[c].at = now
    /\ has(store[calls[c].stage], calls[c].arg)
    /\ now = EntryOf(store[calls[c].stage], calls[c].arg).timestamp + config.ttl

\* every call so far was a single fetch of one kind that returned an entity,
\* all for different ids: that many distinct ids were inserted in call order
\* into the store, which was empty before
InsertedOnly(kind) ==
  /\ \A c \in CallIds :
       /\ calls[c].kind = "get" /\ calls[c].pc = "done"
       /\ calls[c].stage = kind /\ calls[c].ret # Null
  /\ \A c, d \in CallIds : c # d => calls[c].arg # calls[d].arg

\* C8: after floor(maxSize/6) + k distinct ids (k >= 1) were inserted into an
\* empty store, it holds exactly floor(maxSize/6) entries: the k earliest
\* inserted ids are absent and the later ones are present, in insertion order.
C8_FifoAtFloor ==
  \A kind \in Kinds :
    (InsertedOnly(kind) /\ MaxCalls > config.maxSize \div 6) =>
      LET floor == config.maxSize \div 6 IN
      /\ Len(store[kind]) = floor
      /\ \A n \in 1..floor :
           store[kind][n].id = calls[MaxCalls - floor + n].arg

\* C9: within one hydrateTimeEntries call the upstream getProject is invoked
\* at most once per distinct project id of the batch.
C9_OneRequestPerProject ==
  \A c \in HydrateCalls : \A p \in ProjectIdsOf : calls[c].asked[p] <= 1

\* during call c the upstream failed for project x and no other, every time it
\* was asked for x, and an API client was set whenever c needed one
FailsOnlyFor(c, x) ==
  /\ calls[c].failed = {x}
  /\ x \notin calls[c].served
  /\ calls[c].unasked = {}

RealName(pid) == UpstreamEntity("project", pid).name

\* C10 as stated: if the upstream fails for exactly one project id of a batch,
\* exactly the entries that reference it carry "Project <id>", and every other
\* entry with a project_id carries its project's real name.
C10_ExactlyTheFailing ==
  \A c \in HydrateCalls : \A x \in ProjectIdsOf :
    (calls[c].pc = "done" /\ FailsOnlyFor(c, x)) =>
      \A h \in Range(calls[c].out) :
        h.project_id # 0 =>
          /\ h.project_id = x => h.project_name = Some(Placeholder("project", x))
          /\ h.project_id # x => h.project_name = Some(RealName(h.project_id))

\* C10 as amended: if the upstream fails for exactly one project id of a
\* batch, only entries that reference it can carry "Project <id>" (they carry
\* it or, when the cache served the project, its real name), and every other
\* entry with a project_id carries its project's real name.
C10_OnlyTheFailing ==
  \A c \in HydrateCalls : \A x \in ProjectIdsOf :
    (calls[c].pc = "done" /\ FailsOnlyFor(c, x)) =>
      \A h \in Range(calls[c].out) :
        h.project_id # 0 =>
          /\ h.project_id = x =>
               h.project_name \in {Some(Placeholder("project", x)), Some(RealName(x))}
          /\ h.project_id # x => h.project_name = Some(RealName(h.project_id))

\* a two-project batch was hydrated while the upstream failed for project 1
\* only: its entry shows the placeholder, the other its real name
C10_Witness ==
  \E c \in HydrateCalls :
    /\ calls[c].pc = "done" /\ FailsOnlyFor(c, 1)
    /\ Len(calls[c].out) = 2
    /\ calls[c].out[1].project_name = Some("Project 1")
    /\ calls[c].out[2].project_name = Some("project-2")

\* the calls that started a warmCache execution
Warms == {c \in CallIds : calls[c].warm.pc # "none"}

\* C11: warmCache never propagates a failure: whatever requests are rejected,
\* an execution under way can always go on, it ends by returning, never by a
\* rejected promise, and it returns the same value (undefined) whether all,
\* some or none of its requests succeeded.
C11_WarmNeverFails ==
  \A c \in Warms :
    /\ calls[c].warm.result \in {"pending", "void"}
    /\ InFlight(c) =>
         /\ calls[c].warm.result = "pending"
         /\ ENABLED (warmListSettles(c) \/ warmEntitiesSettle(c))
    /\ ~InFlight(c) => calls[c].warm.result = "void"

\* a warm has returned after some of its requests were rejected and others
\* answered, and another after all of its requests were rejected
C11_Witness ==
  /\ \E c \in Warms :
       /\ calls[c].warm.result = "void"
       /\ calls[c].warm.rejected /\ calls[c].warm.answered
  /\ \E c \in Warms :
       /\ calls[c].warm.result = "void"
       /\ calls[c].warm.rejected /\ ~calls[c].warm.answered

\* the number of workspaces whose entity requests a warm has issued
RoundsOf(w) == (Len(w.log) - 1) \div 3

\* C12: warmCache without a workspace id requests the workspace list first and
\* then the projects, clients and tags of the first three listed workspaces
\* only, in listed order; the requests of a workspace are issued only when the
\* list and all three requests of every earlier workspace have settled.
C12_FirstThreeInOrder ==
  \A c \in Warms :
    calls[c].warm.wid = 0 =>
      LET w == calls[c].warm
          n == RoundsOf(w)
      IN /\ w.log[1] = Fetch("workspaces", 0)
         /\ Len(w.log) = 1 + 3 * n
         /\ n <= 3
         /\ \A r \in 1..n :
              /\ SubSeq(w.log, 3 * r - 1, 3 * r + 1) = Round(WorkspaceList[r])
              /\ Fetch("workspaces", 0) \in w.back
              /\ \A q \in 1..(r - 1) : Range(Round(WorkspaceList[q])) \subseteq w.back
         /\ \A k \in 1..Len(w.log) : \A q \in 4..Len(WorkspaceList) :
              w.log[k].ws # WorkspaceList[q]

\* a warm without a workspace id has returned after handling three of the
\* four listed workspaces
C12_Witness ==
  /\ Len(WorkspaceList) = 4
  /\ \E c \in Warms :
       /\ calls[c].warm.wid = 0 /\ calls[c].warm.result = "void"
       /\ RoundsOf(calls[c].warm) = 3
       /\ calls[c].warm.ws = WorkspaceList[3]

\* C13: warmCache called with a workspace id requests only that workspace's
\* projects, clients and tags: it does not request the workspace list, nor
\* any other workspace's entities.
C13_OnlyThatWorkspace ==
  \A c \in Warms :
    calls[c].warm.wid # 0 =>
      \A k \in 1..Len(calls[c].warm.log) :
        /\ calls[c].warm.log[k].what \in WarmKinds
        /\ calls[c].warm.log[k].ws = calls[c].warm.wid

\* the ensureCache warm whose promise chain has not finished
Chained(c) ==
  c \in EnsureStarters /\ calls[c].warm.pc \in {"list", "entities", "settled", "then"}

\* the slot holds the promise of an unfinished chain, and only of one
SlotTracksWarm ==
  /\ \A c \in EnsureStarters : InFlight(c) => cacheWarmingPromise = c
  /\ cacheWarmingPromise # 0 => Chained(cacheWarmingPromise)
  /\ \A c \in CallIds : Chained(c) => cacheWarmingPromise = c

\* C14: cacheWarmingPromise is non-null exactly while a warm started by
\* ensureCache has not finished: it is never cleared (or replaced) before
\* that warm settles, and once the warm has settled, with or without
\* rejected requests, the slot is cleared.
C14_SlotClearedOnlyAfterSettle ==
  /\ []SlotTracksWarm
  /\ \A c \in CallIds :
       (c \in EnsureStarters /\ calls[c].warm.pc = "settled") ~> (cacheWarmingPromise # c)

\* the slot has been cleared after a warm of ensureCache settled with
\* rejected requests
C14_Witness ==
  \E c \in EnsureStarters :
    /\ calls[c].warm.pc = "closed" /\ calls[c].warm.rejected
    /\ cacheWarmingPromise = 0

\* call c is issued in this step as a call of the given kind
Issued(c, kind) == calls[c].kind = "none" /\ calls'[c].kind = kind

\* C15: right after clearCache, getStats reports size 0 for all six kinds and
\* 0 hits and 0 misses, and a get of any id that was cached before the clear
\* is a miss.
C15_ClearResetsAll ==
  [][\A c \in CallIds :
       Issued(c, "clear") =>
         /\ getStats'.workspaces = 0 /\ getStats'.projects = 0
         /\ getStats'.clients = 0 /\ getStats'.tasks = 0
         /\ getStats'.users = 0 /\ getStats'.tags = 0
         /\ getStats'.hits = 0 /\ getStats'.misses = 0
         /\ \A k \in Kinds : \A n \in 1..Len(store[k]) :
              ~getCached(store'[k], store[k][n].id, now').hit
    ]_vars

\* a clear has followed a get that fetched and cached its entity, after that
\* get's miss was counted
C15_Witness ==
  \E c, d \in CallIds :
    /\ d = c + 1
    /\ calls[c].kind = "get" /\ calls[c].pc = "done" /\ calls[c].ret # Null
    /\ calls[d].kind = "clear"
    /\ getStats.hits = 0 /\ getStats.misses = 0
    /\ \A k \in Kinds : store[k] = <<>>

\* C16: a get of an entry that is present but expired returns absent and
\* records a miss, and no get removes or reorders an entry of any store.
C16_GetLeavesStore ==
  [][\A c \in CallIds :
       Issued(c, "get") =>
         /\ store' = store
         /\ LET k == calls'[c].stage
                id == calls'[c].arg
            IN (has(store[k], id)
                  /\ now - EntryOf(store[k], id).timestamp >= EntryOf(store[k], id).ttl) =>
                 /\ calls'[c].ret = Null
                 /\ stats'.misses = stats.misses + 1
                 /\ stats'.hits = stats.hits
                 /\ has(store'[k], id)
    ]_vars

\* a get found its entry expired, counted the miss, asked the upstream in
\* vain and returned absent: the expired entry is still stored
C16_Witness ==
  \E c \in GetCalls :
    /\ calls[c].pc = "done" /\ calls[c].ret = Null /\ ~calls[c].wait
    /\ calls[c].at = now
    /\ has(store[calls[c].stage], calls[c].arg)
    /\ now - EntryOf(store[calls[c].stage], calls[c].arg).timestamp
         >= EntryOf(store[calls[c].stage], calls[c].arg).ttl
    /\ stats.misses >= 2

\* the last clear issued so far (0: none)
LastClear ==
  LET cs == {c \in CallIds : calls[c].kind = "clear"}
  IN IF cs = {} THEN 0 ELSE CHOOSE c \in cs : \A d \in cs : d <= c

\* the gets that looked into a store since the last clear: getWorkspace
\* without an id returns before its lookup
CountedGets ==
  {c \in GetCalls : c > LastClear /\ ~(calls[c].stage = "workspace" /\ calls[c].arg = 0)}

\* the counters after N gets
CountersMatchGets ==
  /\ stats.hits + stats.misses = Cardinality(CountedGets)
  /\ (/\ \A c \in CallIds : calls[c].kind = "get"
      /\ \A c, d \in CallIds :
           c # d => <<calls[c].stage, calls[c].arg>> # <<calls[d].stage, calls[d].arg>>)
       => (stats.hits = 0 /\ stats.misses = Cardinality(CountedGets))

\* C17: every cache get adds one to exactly one of hits and misses: to hits
\* if and only if the entry is present and valid. N gets of N distinct
\* never-inserted ids give N misses and no hit, a get of an id right after its
\* fetch-and-cache is a hit, and hits + misses is the number of gets since the
\* last clear.
C17_OneCounterPerGet ==
  /\ []CountersMatchGets
  /\ [][\A c \in CallIds :
          (Issued(c, "get") /\ ~(calls'[c].stage = "workspace" /\ calls'[c].arg = 0)) =>
            LET k == calls'[c].stage
                id == calls'[c].arg
                valid == /\ has(store[k], id)
                         /\ now - EntryOf(store[k], id).timestamp < EntryOf(store[k], id).ttl
            IN /\ valid => (stats'.hits = stats.hits + 1 /\ stats'.misses = stats.misses)
               /\ ~valid => (stats'.hits = stats.hits /\ stats'.misses = stats.misses + 1)
               /\ (has(store[k], id) /\ EntryOf(store[k], id).timestamp = now) =>
                    (stats'.hits = stats.hits + 1 /\ calls'[c].ret = EntryOf(store[k], id).data)
     ]_vars

\* a get of an id right after the get that fetched and cached it: one miss,
\* then one hit
C17_Witness ==
  \E c, d \in GetCalls :
    /\ d = c + 1
    /\ calls[c].stage = calls[d].stage /\ calls[c].arg = calls[d].arg
    /\ calls[c].ret # Null /\ calls[d].ret = calls[c].ret
    /\ calls[d].at = EntryOf(store[calls[d].stage], calls[d].arg).timestamp
    /\ stats.hits = 1 /\ stats.misses = 1

\* C18: no lookup bypasses the store's counted get: when hydration decides
\* which project ids to prefetch, it looks each distinct project id of the
\* batch up through get, so the ids it prefetches are those whose get misses
\* (absent or expired), and these lookups are counted in hits or misses like
\* the lookups of the getProject calls of the prefetch.
C18_PrefetchDecisionCounted ==
  [][\A c \in CallIds :
       Issued(c, "hydrate") =>
         LET ids == Range(projectIds(calls'[c].entries))
             missing == {id \in ids : ~getCached(store["project"], id, now).hit}
         IN /\ api => calls'[c].pend = missing
            /\ stats'.hits + stats'.misses =
                 stats.hits + stats.misses + Cardinality(ids) + Cardinality(calls'[c].pend)
    ]_vars

\* C19: pruneExpired removes from every kind exactly the entries of age >=
\* ttl: what stays is the sequence of the valid entries, data and order
\* unchanged, and hits, misses and lastReset are unchanged.
C19_PruneRemovesExpiredOnly ==
  [][\A c \in CallIds :
       Issued(c, "prune") =>
         /\ \A k \in Kinds :
              store'[k] = SelectSeq(store[k], LAMBDA e : now - e.timestamp < e.ttl)
         /\ stats' = stats
    ]_vars

\* a prune followed a hydration that cached projects 1 and 2 at different
\* times, in a store with room for both: the expired one is gone, the valid
\* one and the counters are still there
C19_Witness ==
  \E c, d \in CallIds :
    /\ d = c + 1
    /\ calls[c].kind = "hydrate" /\ calls[c].served = {1, 2}
    /\ calls[d].kind = "prune"
    /\ config.maxSize = 9
    /\ Len(store["project"]) = 1
    /\ now - store["project"][1].timestamp < store["project"][1].ttl
    /\ stats.misses > 0

\* ---------------------------------------------------------------------
\* The timeline tool

\* the timeline calls that were answered with a summary
TimelineDone == {c \in CallIds : calls[c].kind = "timeline" /\ calls[c].pc = "done"}

\* the window of an answered timeline call
WindowOf(c) == TimelineWindow(calls[c].tl.args, calls[c].tl.clock)

\* the interval of e overlaps the window w at the instant clock (in ms):
\* the effective end is end_time, or the instant when end_time is null
Overlaps(e, w, clock) ==
  LET effective_end == IF e.end_time # None THEN e.end_time[1] * MsPerSecond ELSE clock
  IN ~ \/ (w.startTs # None /\ effective_end < w.startTs[1] * MsPerSecond)
       \/ (w.endTs # None /\ e.start_time >= w.endTs[1])

EventOf(c, id) == CHOOSE e \in {calls[c].tl.response[k] : k \in 1..Len(calls[c].tl.response)} : e.id = id

\* the length of the interval from a to b, empty when b lies before a
Length(a, b) == Max(0, b - a)

\* the duration the clipping rule gives an event over [start_time, effective_end]
\* in a window whose bounds are None or Some(seconds)
ClippedDuration(start_time, effective_end, w) ==
  LET from == IF w.startTs # None THEN w.startTs[1] ELSE start_time
      to == IF w.endTs # None THEN w.endTs[1] ELSE effective_end
  IN Max(0, Min(effective_end, to) - Max(start_time, from))

\* C21: every counted timeline event contributes
\* max(0, min(effective_end, window.end) - max(start_time, window.start)),
\* an absent bound replaced by the event's own value; the contribution is
\* never negative and never exceeds the event's own length or the window's
\* length; event [100,200] in window [150,1000] gives 50, and an active
\* event from 500 at now = 600 in window [0,550] gives 50.
C21_ClippedDuration ==
  /\ \A c \in TimelineDone :
       LET tl == calls[c].tl
           w == WindowOf(c)
       IN /\ Len(tl.durations) = Len(tl.counted)
          /\ \A k \in 1..Len(tl.counted) :
               LET e == EventOf(c, tl.counted[k])
                   effective_end == IF e.end_time # None THEN e.end_time[1]
                                    ELSE tl.clock \div MsPerSecond
               IN /\ tl.durations[k] = ClippedDuration(e.start_time, effective_end, w)
                  /\ tl.durations[k] >= 0
                  /\ tl.durations[k] <= Length(e.start_time, effective_end)
                  /\ (w.startTs # None /\ w.endTs # None)
                       => tl.durations[k] <= Length(w.startTs[1], w.endTs[1])
  /\ clipped(TimelineEvent(0, 100, Some(200), None),
             [startTs |-> Some(150), endTs |-> Some(1000)], 0).duration = 50
  /\ clipped(TimelineEvent(0, 500, None, None),
             [startTs |-> Some(0), endTs |-> Some(550)], 600).duration = 50

\* a call over the window [day 1, day 2) counted an event that began before
\* the window and ended inside it (clipped at the start to 50 seconds), a
\* running event that began in the window's last second and is seen after
\* the window's end (clipped at the end to 1 second), and an event inside
\* the window (its whole hour)
C21_Witness ==
  \E c \in TimelineDone :
    /\ WindowOf(c) = [startTs |-> Some(SECONDS_PER_DAY), endTs |-> Some(2 * SECONDS_PER_DAY)]
    /\ calls[c].tl.counted = <<7, 4, 3>>
    /\ calls[c].tl.durations = <<50, 1, 3600>>

\* the events of an answered call's response that match its window and app filter
Matching(c) ==
  LET tl == calls[c].tl
      matches(e) == /\ ~filteredOut(e, appFilterOf(tl.args.app))
                    /\ Overlaps(e, WindowOf(c), tl.clock)
  IN SelectSeq(tl.response, matches)

\* the totals of a response body
TotalsOf(body) ==
  [total_events |-> body.total_events, total_seconds |-> body.total_seconds,
   summary |-> body.summary]

LimitSamples == (0 - 3)..(1000 + 3)

\* C23: the limit is clamped, never rejected: a numeric limit gives an
\* effective limit in 1..1000 (below 1 gives 1, above 1000 gives 1000, in
\* between itself), an absent or non-numeric limit gives 50, and a call
\* answers with an error only when the upstream request was rejected or the
\* period is invalid, whatever its limit.
C23_LimitClamped ==
  /\ \A n \in LimitSamples :
       /\ limitOf(Some(n)) \in 1..1000
       /\ n < 1 => limitOf(Some(n)) = 1
       /\ n > 1000 => limitOf(Some(n)) = 1000
       /\ n \in 1..1000 => limitOf(Some(n)) = n
  /\ limitOf(None) = 50
  /\ limitOf(Text("ten")) = 50
  /\ \A c \in CallIds :
       (calls[c].kind = "timeline" /\ calls[c].pc = "error")
       => \/ calls[c].tl.upstream = "reject"
          \/ (calls[c].tl.args.period # None /\ ~isDatePeriod(calls[c].tl.args.period[1]))
  /\ \A c \in TimelineDone :
       /\ calls[c].tl.body[1].error = FALSE
       /\ calls[c].tl.body[1].returned_events <= limitOf(calls[c].tl.args.limit)
       /\ calls[c].tl.body[1].returned_events =
            IF includeEventsOf(calls[c].tl.args.include_events)
            THEN Min(Len(calls[c].tl.counted), limitOf(calls[c].tl.args.limit)) ELSE 0

\* a call with limit 0 and events included matched five events and was
\* answered, without error, with one event
C23_Witness ==
  \E c \in TimelineDone :
    /\ calls[c].tl.args.limit = Some(0)
    /\ calls[c].tl.args.include_events # Some(FALSE)
    /\ Len(calls[c].tl.counted) = 5
    /\ calls[c].tl.body[1].error = FALSE
    /\ calls[c].tl.body[1].returned_events = 1

\* C24: the summary lists each application of the counted events (filename,
\* or "Unknown" when filename is null) once, in non-increasing order of its
\* aggregated seconds.
C24_SummarySortedDescending ==
  \A c \in TimelineDone :
    LET summary == calls[c].tl.body[1].summary
        tl == calls[c].tl
        appOf(k) == LET e == EventOf(c, tl.counted[k]) IN
                    IF e.filename = None THEN "Unknown" ELSE e.filename[1]
    IN /\ \A i, j \in 1..Len(summary) : summary[i].app = summary[j].app => i = j
       /\ {summary[i].app : i \in 1..Len(summary)} = {appOf(k) : k \in 1..Len(tl.counted)}
       /\ \A i \in 1..Len(summary) :
            summary[i].seconds =
              Sum([k \in 1..Len(tl.counted) |->
                     IF appOf(k) = summary[i].app THEN tl.durations[k] ELSE 0])
       /\ \A i \in 1..(Len(summary) - 1) : summary[i].seconds >= summary[i + 1].seconds

\* ---------------------------------------------------------------------
\* The hydrating tools

\* a call has been answered
Answered(c) == calls[c].pc \in {"done", "error"}

\* a call is inside hydrateTimeEntries
Hydrating(c) == calls[c].pc \in {"prefetch", "resolve"}

\* every ensureCache call so far has returned, every warmCache execution has
\* settled, every hydrateTimeEntries call has returned: every tool call
\* issued so far has been answered
AllSettled ==
  \A c \in CallIds :
    /\ calls[c].pc # "awaitWarm"
    /\ ~InFlight(c)
    /\ ~Hydrating(c)
    /\ calls[c].kind = "report" => Answered(c)

\* C25: no core operation blocks forever: when every upstream fetch
\* eventually resolves or rejects, every ensureCache call returns (also for a
\* caller that waits on another caller's warm), every warmCache execution
\* settles and every hydrateTimeEntries call returns: whatever is pending,
\* a state in which nothing is pending comes again.
C25_NothingBlocksForever == []<>AllSettled

\* a caller that waited on the other caller's warm has hydrated its entries
\* and was answered
C25_Witness ==
  \E c \in CallIds :
    /\ calls[c].kind = "report"
    /\ calls[c].awaits \notin {0, c}
    /\ calls[c].pc = "done"
    /\ Len(calls[c].out) > 0
    /\ calls[calls[c].awaits].warm.result = "void"

\* a report that found the cache warmed when it started: its ensureCache
\* returned at once
StartedWarm(c) == calls[c].kind = "report" /\ calls[c].awaits = 0

\* C26: once the cache has been warmed, a report issues exactly one upstream
\* request, the time-entries fetch: its hydration resolves every name from
\* the cache and has no upstream entity request pending at any time.
C26_WarmedReportFetchesOnlyEntries ==
  \A c \in CallIds :
    StartedWarm(c) => (calls[c].pc # "prefetch" /\ ~calls[c].wait)

\* ---------------------------------------------------------------------
\* Entry lifecycle

\* the ids a Map holds
Ids(cache) == {cache[k].id : k \in 1..Len(cache)}

\* this step is a clearCache or a pruneExpired
ClearOrPruneStep ==
  \E c \in CallIds : calls[c].kind = "none" /\ calls'[c].kind \in {"clear", "prune"}

\* C27: an entry stays in its store until capacity eviction, a full clear or
\* expiry pruning removes it, and capacity eviction happens only when a put
\* adds a new id to a store that is at capacity: a put that overwrites an id
\* already present replaces that entry wholesale, with a fresh timestamp,
\* and removes no other id.
C27_OverwriteEvictsNothing ==
  [][\A k \in Kinds :
       LET gone == Ids(store[k]) \ Ids(store'[k])
           added == Ids(store'[k]) \ Ids(store[k])
       IN /\ gone # {} =>
               \/ ClearOrPruneStep
               \/ (added # {} /\ 6 * Len(store[k]) >= config.maxSize)
          /\ \A id \in Ids(store[k]) \cap Ids(store'[k]) :
               LET old == store[k][IndexOf(store[k], id)]
                   new == store'[k][IndexOf(store'[k], id)]
               IN new # old =>
                    (new.timestamp = now /\ new.ttl = config.ttl /\ new.data = apiGet(k, id))
    ]_vars

\* ---------------------------------------------------------------------
\* Tag names

\* the names of the tags among results that resolved, in order
RECURSIVE ResolvedNames(_)
ResolvedNames(results) ==
  IF results = <<>> THEN <<>>
  ELSE IF Head(results) = Null THEN ResolvedNames(Tail(results))
       ELSE <<UpstreamEntity("tag", Head(results).id).name>> \o ResolvedNames(Tail(results))

\* C29: for an entry with a non-empty tag_ids, tag_names is the sequence of
\* the names of exactly the tag ids that resolved, in the order of tag_ids
\* (a failed id is skipped, so it is at most as long as tag_ids); an entry
\* with absent or empty tag_ids gets no tag_names.
C29_TagNamesOfResolved ==
  \A c \in HydrateCalls :
    \A k \in 1..Len(calls[c].out) :
      LET x == calls[c].out[k] IN
      IF Len(x.tag_ids) > 0
      THEN /\ x.tag_names # None
           /\ Len(x.tags_got) = Len(x.tag_ids)
           /\ \A i \in 1..Len(x.tags_got) :
                x.tags_got[i] # Null => x.tags_got[i].id = x.tag_ids[i]
           /\ x.tag_names[1] = ResolvedNames(x.tags_got)
           /\ Len(x.tag_names[1]) <= Len(x.tag_ids)
      ELSE x.tag_names = None /\ x.tags_got = <<>>

\* an entry with tag_ids <<2, 1>> was hydrated while tag 2 failed to resolve
\* and tag 1 resolved: its tag_names holds the name of tag 1 only
C29_Witness ==
  \E c \in HydrateCalls :
    /\ calls[c].pc = "done"
    /\ Len(calls[c].out) = 1
    /\ calls[c].out[1].tag_ids = <<2, 1>>
    /\ calls[c].out[1].tags_got[1] = Null
    /\ calls[c].out[1].tag_names = Some(<<"tag-1">>)

\* ---------------------------------------------------------------------
\* The flag-only warm guard

\* call c starts in this step
Starts(c) == calls[c].kind = "none" /\ calls'[c].kind = "report"

\* some warmCache execution has completed: its fetches have all settled
SomeWarmCompleted ==
  \E e \in CallIds : calls[e].warm.pc \notin {"none", "list", "entities"}

\* C30: with ensureCache guarded by the cacheWarmed flag alone, a caller
\* that starts while another caller's warm is in flight and before any warm
\* has completed observes "not warmed" and starts a warmCache execution of
\* its own, so that two warms are in flight at once.
C30_FlagOnlyStartsTwoWarms ==
  [][\A c, d \in CallIds :
       (c # d /\ Starts(c) /\ InFlight(d) /\ ~SomeWarmCompleted)
       => (~cacheWarmed /\ InFlight(c)' /\ InFlight(d)'
           /\ calls'[c].warm.log = <<Fetch("workspaces", 0)>>)
    ]_vars

\* two callers have each a warmCache execution in flight
C30_Witness ==
  \E c, d \in CallIds :
    /\ c # d
    /\ calls[c].kind = "report" /\ calls[d].kind = "report"
    /\ InFlight(c) /\ InFlight(d)
    /\ ~cacheWarmed /\ cacheWarmingPromise = 0

\* ---------------------------------------------------------------------
\* TogglAPI.request

RequestOf(c) == calls[c].req

Succeeded(answer) == answer \in {"200", "204"}

\* the request of call c ended as the answers of its attempts require
EndsAsAnswered(c) ==
  LET r == RequestOf(c)
      n == Len(r.attempts)
  IN /\ n <= retries
     /\ \A k \in 1..(n - 1) : ~Succeeded(r.attempts[k])
     /\ r.phase = "returned" =>
          /\ n >= 1 /\ Succeeded(r.attempts[n])
          /\ r.result = (IF r.attempts[n] = "204" THEN "{}" ELSE "json")
     /\ r.phase = "thrown" =>
          /\ n = retries /\ ~Succeeded(r.attempts[n])
          /\ r.result = (IF r.attempts[n] = "429" THEN "Max retries reached"
                         ELSE IF r.attempts[n] = "401" THEN "Authentication failed (401)"
                         ELSE IF r.attempts[n] = "500" THEN "Toggl API error (500)"
                         ELSE "fetch failed")
     /\ r.phase \in {"rateWait", "backoff"} =>
          /\ n = r.i + 1
          /\ (r.phase = "rateWait") = (r.attempts[n] = "429")
     /\ r.phase = "fetch" => n = r.i /\ n < retries

\* C31: request() makes at most `retries` (3) HTTP attempts and, every
\* attempt settling, always terminates: it returns the first successful
\* response, otherwise it rethrows the error of the last attempt, or throws
\* 'Max retries reached' when the last attempt was answered 429; a 429
\* answer is waited for and consumes one attempt.
C31_RequestTerminates ==
  /\ [](\A c \in CallIds : EndsAsAnswered(c))
  /\ \A c \in CallIds :
       (RequestOf(c).phase # "none") ~> (RequestOf(c).phase \in {"returned", "thrown"})

\* a request answered 429 on its third attempt, after an error and another
\* 429, has thrown 'Max retries reached'
C31_Witness ==
  \E c \in CallIds :
    /\ RequestOf(c).phase = "thrown"
    /\ RequestOf(c).attempts = <<"500", "429", "429">>
    /\ RequestOf(c).result = "Max retries reached"

\* ---------------------------------------------------------------------
\* The tool-call handler

\* the handler of call c has settled
Settled(c) == calls[c].pc \in {"done", "error", "rejected", "failed"}

\* the error a finished call ran into, by its cause: None when it ran into none
ErrorMet(c) ==
  LET r == calls[c] IN
  IF r.kind = "unknown" THEN Some("Unknown tool: toggl_frobnicate")
  ELSE IF r.cr.args = <<>> THEN None
  ELSE IF createChecked(r.cr.args, config.defaultWorkspaceId).error # None
  THEN createChecked(r.cr.args, config.defaultWorkspaceId).error
  ELSE IF r.cr.phase = "create" /\ Settled(c) THEN r.raised
  ELSE None

\* C32: the tool-call handler never rejects: an error raised while a tool
\* runs (argument validation, upstream failure, missing workspace ID, unknown
\* tool name) is returned as a normal response whose body has error: true
\* and the message of the error.
C32_HandlerNeverRejects ==
  \A c \in CallIds :
    /\ calls[c].pc \notin {"rejected", "failed"}
    /\ calls[c].raised = (IF Settled(c) THEN ErrorMet(c) ELSE None)
    /\ calls[c].raised # None =>
         /\ calls[c].pc = "error"
         /\ calls[c].resp = Some([error |-> TRUE, message |-> calls[c].raised[1]])
    /\ calls[c].raised = None => calls[c].resp = None
    /\ (calls[c].cr.phase = "create" /\ Settled(c)) => calls[c].raised[1] \in RequestErrors

\* one call was answered the error of an unknown tool and another the
\* error of its failed create request
C32_Witness ==
  \E c, d \in CallIds :
    /\ calls[c].kind = "unknown" /\ calls[c].pc = "error"
    /\ calls[c].resp = Some([error |-> TRUE, message |-> "Unknown tool: toggl_frobnicate"])
    /\ calls[d].kind = "create" /\ calls[d].cr.posts # <<>>
    /\ calls[d].resp = Some([error |-> TRUE, message |-> "Toggl API error (500)"])

\* a start or stop argument that is missing or is no valid date
BadStamp(value) ==
  value \notin {Text("1970-01-01T00:00:00Z"), Text("1970-01-01T00:00:00.500Z"),
                Text("1970-01-01T00:00:01Z")}

\* arguments the tool must refuse: a missing or invalid start or stop, a
\* stop that is not strictly after start, or no resolvable workspace ID
Unacceptable(args) ==
  \/ BadStamp(args.start) \/ BadStamp(args.stop)
  \/ getTime(args.stop[2])[1] <= getTime(args.start[2])[1]
  \/ (config.defaultWorkspaceId = 0
      /\ ~isPositiveInteger(args.workspace_id))

\* C33: toggl_create_time_entry with a missing or invalid start or stop,
\* with stop not strictly after start, or with no resolvable workspace ID
\* returns an error response and has no effect: no upstream create request
\* is issued, no warm is started and the cache is unchanged.
C33_RejectedCreateHasNoEffect ==
  [][\A c \in CallIds :
       (calls[c].kind = "none" /\ calls'[c].kind = "create"
        /\ Unacceptable(calls'[c].cr.args))
       => /\ calls'[c].pc = "error"
          /\ calls'[c].resp # None /\ calls'[c].resp[1].error
          /\ calls'[c].cr.posts = <<>> /\ calls'[c].cr.phase = "none"
          /\ calls'[c].warm = NoWarm /\ calls'[c].awaits = 0
          /\ UNCHANGED <<store, stats, cacheWarmed, cacheWarmingPromise>>
          /\ \A d \in CallIds \ {c} : calls'[d] = calls[d]
    ]_vars

\* a create whose stop equals its start was answered an error, with a
\* warmed cache and no create request of its own
C33_Witness ==
  \E c \in CallIds :
    /\ calls[c].kind = "create" /\ calls[c].pc = "error"
    /\ calls[c].cr.args.workspace_id = Some(1)
    /\ calls[c].cr.args.start = calls[c].cr.args.stop
    /\ calls[c].resp = Some([error |-> TRUE, message |-> "Stop time must be after start time"])
    /\ calls[c].cr.posts = <<>>
    /\ cacheWarmed /\ store["workspace"] # <<>>

\* ---------------------------------------------------------------------
\* cacheWarmed and failed warms

\* C34: cacheWarmed becomes true only after a warm whose upstream fetches
\* succeeded: when the fetches of a warm started by ensureCache fail,
\* cacheWarmed stays false, so the next ensureCache call starts a new warm.
C34_WarmedOnlyAfterSuccess ==
  [][(~cacheWarmed /\ cacheWarmed')
     => \E c \in CallIds :
          /\ calls[c].warm.pc = "settled" /\ calls'[c].warm.pc # "settled"
          /\ ~calls[c].warm.rejected
    ]_vars

\* C35: after toggl_clear_cache, cacheWarmed stays false until a warm that
\* started after the clear has completed: a warm that was already in flight
\* when the clear ran does not mark the cleared cache as warmed. (Calls are
\* numbered in the order they start, and a warm starts with its call.)
C35_ClearedStaysUnwarmed ==
  [][(LastClear # 0 /\ ~cacheWarmed /\ cacheWarmed')
     => \E c \in CallIds :
          /\ c > LastClear
          /\ calls[c].warm.pc = "settled" /\ calls'[c].warm.pc # "settled"
    ]_vars

\* ---------------------------------------------------------------------
\* Keys and ids

\* C36: in every reachable state and for every kind, an entry stored under
\* key k holds the entity whose own id is k, so that a get for id k never
\* returns another entity's data.
C36_KeyIsEntityId ==
  \A kind \in Kinds : \A k \in 1..Len(store[kind]) :
    store[kind][k].data.id = store[kind][k].id

\* ---------------------------------------------------------------------
\* Failed single fetches

\* C37: when a single-entity upstream fetch fails or returns nothing, the
\* contents of all six stores are unchanged (nothing is inserted,
\* overwritten or evicted) and the only state change is one increment of
\* the miss counter, made by the lookup before the request; the caller
\* receives null.
C37_FailedFetchChangesNothing ==
  [][\A c \in CallIds :
       /\ (calls[c].kind = "none" /\ calls'[c].kind = "get" /\ calls'[c].wait)
          => /\ store' = store
             /\ stats' = [stats EXCEPT !.misses = @ + 1]
       /\ (calls[c].kind = "get" /\ calls[c].wait /\ calls'[c].failed # {})
          => /\ store' = store /\ stats' = stats
             /\ calls'[c].pc = "done" /\ calls'[c].ret = Null
    ]_vars

\* a get whose request failed has returned null while the store of its kind
\* holds another entity
C37_Witness ==
  \E c \in CallIds :
    /\ calls[c].kind = "get" /\ calls[c].pc = "done"
    /\ calls[c].failed = {calls[c].arg} /\ calls[c].ret = Null
    /\ store[calls[c].stage] # <<>>
    /\ stats.misses >= 2

\* ---------------------------------------------------------------------
\* Transparency of the cache

\* the hydration of entry e by the upstream alone, without a cache: every
\* reference is looked up upstream, stage after stage
RECURSIVE Direct(_, _, _, _)
Direct(e, cur, stage, j) ==
  LET id == TargetId(e, cur, stage, j)
      res == IF stage = "workspace" /\ id = 0 THEN Null ELSE apiGet(stage, id)
      nxt == StageAfter(e, stage, res, j)
      done == withName(cur, e, stage, res, j)
  IN IF nxt = "push" THEN done
     ELSE Direct(e, done, nxt, IF stage = "tag" THEN j + 1 ELSE 1)

====
